---- MODULE Spec2Model ----
(***************************************************************************)
(* Task dispatch and rental lifecycle of the proxy rental bot:             *)
(* the proxy_task_queue table with its two triggers, the completion wait,  *)
(* the administrative list/clear operations, the purchase handler and the  *)
(* reclamation loop.                                                       *)
(***************************************************************************)
EXTENDS Integers, Sequences, FiniteSets, TLC

(* ------------------------------ bounds -------------------------------- *)
\* Last instant of the clock where the queue is administered.
MaxTime == 2
\* Last instant of the clock where a caller waits for a task, in seconds.
MaxWaitTime == 4
\* Number of tasks enqueued where a caller waits for a task.
MaxWaitTasks == 1
\* Last instant of the clock of the rentals, and the tasks enqueued there.
MaxLifeTime == 1
\* Last value of the clock where rentals expire one after the other.
MaxExpiryTime == 2
MaxLifeTasks == 4
\* Length of a rental week on the clock of the rentals.
Week == 1
\* Number of task rows the serial id of proxy_task_queue may hand out.
MaxTasks == 2

(* ------------------------- program constants -------------------------- *)
StatusAvailable == 1
StatusRented == 2
StatusUnavailable == 3
\* timeout=5 given by both callers of wait_for_task_completion
CallerTimeout == 5
\* interval: int = 2, the default poll interval
DefaultInterval == 2

NoTime == 0 - 1
NoTask == 1 - 1
TaskStatusEnum == {"pending", "processing", "done", "error"}
Terminal == {"done", "error"}

(* --------------------------- inventory rows --------------------------- *)
\* Rows of proxy_servers, proxies and proxy_ports; every proxy and port
\* belongs to a server (ForeignKey("proxy_servers.id")).
Servers == {1}
Proxies == {1, 2}
Ports == {1, 2}
ProxyServerId(p) == 1
PortServerId(q) == 1
ProxyTypeId(p) == 1
ServerIp(s) == <<"10.0.0", s>>
InternalIp(p) == <<"192.168.0", p>>
PortNumber(q) == 8080 + q
ProtocolOf(p) == "SOCKS5"
\* proxy_catalog.price_per_week of the one catalog item.
PricePerWeek == 1
Terms == {1}
OperatorOf(p) == "TESTCO"

Users == {"u1", "u2"}
\* The user of the lifecycle where one buyer meets the reclamation loop.
Buyer == "u1"
Callers == Users \cup {"reclaimer", "client"}
\* Arguments the exposed queue operations are exercised with.
ProxyIdArgs == {1, 3}
PortIdArgs == {1, 3}
TaskTypes == {"add_proxy", "remove_proxy"}
Timeouts == {2, 3}
\* Arguments of the wait from zero on, and the number of status reads the
\* count of reads tells apart.
AnyTimeouts == {0, 1, 2}
AnyIntervals == {0, 1, 2}
MaxCountedReads == 3
Intervals == {1, 2}

VARIABLES
    now,          \* the database clock, func.now()
    servers,      \* ids of the proxy_servers rows present
    proxyStatus,  \* proxies.status_id by proxy id
    portStatus,   \* proxy_ports.status_id by port id
    balance,      \* users.balance by user
    rentals,      \* rows of proxy_rentals
    nextRentalId, \* serial of proxy_rentals.id
    tasks,        \* rows of proxy_task_queue by id
    nextTaskId,   \* serial of proxy_task_queue.id
    events,       \* payloads sent on channel proxy_task_event
    functions,    \* names in pg_proc
    triggers,     \* names in pg_trigger
    inst,         \* the frame of the last trigger installation
    wait,         \* per caller: the frame of wait_for_task_completion
    pc,           \* per user: position in handle_confirm_purchase
    loc,          \* per user: locals of handle_confirm_purchase
    rec,          \* the frame of clean_expired_proxy_rentals
    adm,          \* the admin's task queue view and clear operation
    cli           \* the last result handed to a direct caller of the queue

storeVars == <<servers, proxyStatus, portStatus, balance, rentals, nextRentalId>>
queueVars == <<tasks, nextTaskId, events>>
procVars  == <<pc, loc, rec>>
catalogVars == <<functions, triggers, inst>>
vars == <<now, servers, proxyStatus, portStatus, balance, rentals, nextRentalId,
          tasks, nextTaskId, events, catalogVars, wait, pc, loc, rec, adm, cli>>

(* ------------------------------ task queue ---------------------------- *)
\* The join of add_task_to_queue: the rows for (proxy_id, port_id); empty
\* when the proxy, the port or the proxy's server row does not exist.
TaskData(proxy_id, port_id) ==
    { [server_ip   |-> ServerIp(ProxyServerId(p)),
       internal_ip |-> InternalIp(p),
       port        |-> PortNumber(q),
       protocol    |-> ProtocolOf(p),
       operator    |-> OperatorOf(p)] :
        p \in {x \in Proxies : x = proxy_id /\ ProxyServerId(x) \in servers},
        q \in {y \in Ports : y = port_id} }

\* A row inserted with status processing.
StartsProcessing(id, task_type, data, login, password) ==
    [id |-> id, task_type |-> task_type, server_ip |-> data.server_ip,
     payload |-> [ip |-> data.server_ip, internal_ip |-> data.internal_ip,
                  port |-> data.port, login |-> login, password |-> password,
                  protocol |-> data.protocol, operator |-> data.operator],
     status |-> "processing", created_at |-> now, updated_at |-> NoTime,
     error_message |-> ""]

\* The row ProxyTaskQueue(...) as inserted: status defaults to pending,
\* created_at to now(), updated_at and error_message stay NULL.
NewTaskRow(id, task_type, data, login, password) ==
    [id |-> id, task_type |-> task_type, server_ip |-> data.server_ip,
     payload |-> [ip |-> data.server_ip, internal_ip |-> data.internal_ip,
                  port |-> data.port, login |-> login, password |-> password,
                  protocol |-> data.protocol, operator |-> data.operator],
     status |-> "pending", created_at |-> now, updated_at |-> NoTime,
     error_message |-> ""]

\* A notification that leaves out the kind of the task.
notify_without_type(new) ==
    [task_id |-> new.id, task_type |-> "",
     server_ip |-> new.server_ip, payload |-> new.payload]

\* notify_proxy_task_insert(): the payload of pg_notify for row NEW.
notify_proxy_task_insert(new) ==
    [task_id |-> new.id, task_type |-> new.task_type,
     server_ip |-> new.server_ip, payload |-> new.payload]

\* What add_task_to_queue returns: the new id, or NoTask for ValueError.
add_task_result(proxy_id, port_id) ==
    IF TaskData(proxy_id, port_id) = {} THEN NoTask ELSE nextTaskId

\* An enqueue that inserts a row of empty data when the lookup finds none.
add_task_unchecked(proxy_id, port_id, login, password, task_type) ==
    LET rows == TaskData(proxy_id, port_id)
        none == [server_ip |-> <<"", 0>>, internal_ip |-> <<"", 0>>, port |-> 0,
                 protocol |-> "", operator |-> ""]
        data == IF rows = {} THEN none ELSE CHOOSE d \in rows : TRUE
        row  == NewTaskRow(nextTaskId, task_type, data, login, password)
    IN /\ tasks' = tasks @@ (nextTaskId :> row)
       /\ nextTaskId' = nextTaskId + 1
       /\ events' = events \cup {notify_proxy_task_insert(row)}

\* add_task_to_queue: lookup, raise ValueError on no data, else add the row
\* and commit; the AFTER INSERT trigger notifies for the committed row.
add_task_to_queue(proxy_id, port_id, login, password, task_type) ==
    LET rows == TaskData(proxy_id, port_id) IN
    IF rows = {}
    THEN UNCHANGED queueVars
    ELSE LET data == CHOOSE d \in rows : TRUE
             row  == NewTaskRow(nextTaskId, task_type, data, login, password)
         IN /\ tasks' = tasks @@ (nextTaskId :> row)
            /\ nextTaskId' = nextTaskId + 1
            /\ events' = IF "trg_proxy_task_insert" \in triggers
                         THEN events \cup {notify_proxy_task_insert(row)}
                         ELSE events

\* A status read that answers done when there is no row.
MissingReadsDone(task_id) ==
    IF task_id \in DOMAIN tasks THEN tasks[task_id].status ELSE "done"

\* get_task_status: the status of the row, None ("") when there is no row.
get_task_status(task_id) ==
    IF task_id \in DOMAIN tasks THEN tasks[task_id].status ELSE ""

\* A trigger that stamps every update of a finished row.
StampsEveryUpdate(old, new) ==
    IF new.status \in Terminal THEN [new EXCEPT !.updated_at = now] ELSE new

\* A trigger that stamps every change of the status.
StampsEveryStatusChange(old, new) ==
    IF new.status # old.status THEN [new EXCEPT !.updated_at = now] ELSE new

\* update_proxy_task_updated_at(): the BEFORE UPDATE trigger.
update_proxy_task_updated_at(old, new) ==
    IF new.status # old.status /\ new.status \in Terminal
    THEN [new EXCEPT !.updated_at = now]
    ELSE new

\* An UPDATE of one row of proxy_task_queue.
UpdateTask(id, new) ==
    tasks' = [tasks EXCEPT ![id] =
                IF "trg_update_proxy_task_updated_at" \in triggers
                THEN update_proxy_task_updated_at(tasks[id], new)
                ELSE new]

(* ------------------------ trigger installation ------------------------ *)
\* Locals of create_proxy_task_queue_trigger and of
\* create_proxy_task_queue_update_trigger: what the two SELECTs found, and
\* how the call ended.
IdleInstall ==
    [function |-> "", result_func |-> FALSE, result_trigger |-> FALSE, outcome |-> ""]

\* CREATE FUNCTION / CREATE TRIGGER of `name` in a catalog: an error where
\* the name is taken.
create(name, catalog) ==
    IF name \in catalog
    THEN [names |-> catalog, error |-> TRUE]
    ELSE [names |-> catalog \cup {name}, error |-> FALSE]

\* An installation that creates both definitions without looking first.
install_unchecked(fname, tname) ==
    [functions |-> create(fname, functions).names,
     triggers  |-> create(tname, triggers).names,
     error     |-> create(fname, functions).error \/ create(tname, triggers).error]

\* The transaction of an installation: SELECT 1 FROM pg_proc, create the
\* function if there is none, SELECT 1 FROM pg_trigger, create the trigger
\* if there is none.
install(fname, tname) ==
    LET f == IF fname \in functions
             THEN [names |-> functions, error |-> FALSE]
             ELSE create(fname, functions)
        t == IF tname \in triggers
             THEN [names |-> triggers, error |-> FALSE]
             ELSE create(tname, triggers)
    IN [functions |-> f.names, triggers |-> t.names, error |-> f.error \/ t.error]

\* The installation with its commit; an error rolls the transaction back.
Install(fname, tname) ==
    /\ IF install(fname, tname).error
       THEN UNCHANGED <<functions, triggers>>
       ELSE /\ functions' = install(fname, tname).functions
            /\ triggers' = install(fname, tname).triggers
    /\ inst' = [function |-> fname,
                result_func |-> fname \in functions,
                result_trigger |-> tname \in triggers,
                outcome |-> IF install(fname, tname).error THEN "error" ELSE "installed"]
    /\ UNCHANGED <<now, storeVars, queueVars, wait, procVars, adm, cli>>

create_proxy_task_queue_trigger ==
    Install("notify_proxy_task_insert", "trg_proxy_task_insert")

create_proxy_task_queue_update_trigger ==
    Install("update_proxy_task_updated_at", "trg_update_proxy_task_updated_at")

\* A trigger, or a function no trigger uses, is dropped from the database.
TriggerDropped(t) ==
    /\ t \in triggers
    /\ triggers' = triggers \ {t}
    /\ UNCHANGED <<now, storeVars, queueVars, functions, inst, wait, procVars, adm, cli>>

FunctionDropped(f) ==
    /\ f \in functions
    /\ f = "notify_proxy_task_insert" => "trg_proxy_task_insert" \notin triggers
    /\ f = "update_proxy_task_updated_at" => "trg_update_proxy_task_updated_at" \notin triggers
    /\ functions' = functions \ {f}
    /\ UNCHANGED <<now, storeVars, queueVars, triggers, inst, wait, procVars, adm, cli>>

(* --------------------------- external worker -------------------------- *)
\* The worker listening on proxy_task_event: pending -> processing ->
\* done | error, and later updates of a finished row that keep its status.
WorkerTake(t) ==
    /\ t \in DOMAIN tasks /\ tasks[t].status = "pending"
    /\ UpdateTask(t, [tasks[t] EXCEPT !.status = "processing"])
    /\ UNCHANGED <<now, storeVars, nextTaskId, events, catalogVars, wait, procVars, adm, cli>>

WorkerFinish(t, s) ==
    /\ t \in DOMAIN tasks /\ tasks[t].status = "processing"
    /\ UpdateTask(t, [tasks[t] EXCEPT !.status = s,
                         !.error_message = IF s = "error" THEN "failed" ELSE ""])
    /\ UNCHANGED <<now, storeVars, nextTaskId, events, catalogVars, wait, procVars, adm, cli>>

WorkerNote(t) ==
    /\ t \in DOMAIN tasks /\ tasks[t].status \in Terminal
    /\ tasks[t].error_message # "noted"
    /\ UpdateTask(t, [tasks[t] EXCEPT !.error_message = "noted"])
    /\ UNCHANGED <<now, storeVars, nextTaskId, events, catalogVars, wait, procVars, adm, cli>>

(* --------------------------- completion wait -------------------------- *)
IdleWait ==
    [state |-> "idle", task_id |-> NoTask, timeout |-> 0, interval |-> 0,
     waited |-> 0, slept |-> 0, reads |-> 0, start |-> 0, result |-> FALSE]

\* A loop test that lets the loop run while waited <= timeout.
LoopTestInclusive(w) ==
    IF w.waited <= w.timeout
    THEN [w EXCEPT !.state = "poll"]
    ELSE [w EXCEPT !.state = "returned", !.result = FALSE]

\* `while waited < timeout:` and the `return False` after the loop.
LoopTest(w) ==
    IF w.waited < w.timeout
    THEN [w EXCEPT !.state = "poll"]
    ELSE [w EXCEPT !.state = "returned", !.result = FALSE]

\* Entry of wait_for_task_completion: waited = 0, then the loop test.
wait_enter(task_id, timeout, interval) ==
    LoopTest([IdleWait EXCEPT !.task_id = task_id, !.timeout = timeout,
                              !.interval = interval, !.start = now])

\* A status read that answers True for error as for done.
wait_poll_any_terminal(w) ==
    LET status == get_task_status(w.task_id)
        r == [w EXCEPT !.reads = @ + 1]
    IN IF status \in Terminal THEN [r EXCEPT !.state = "returned", !.result = TRUE]
       ELSE [r EXCEPT !.state = "sleep", !.slept = 0]

\* One pass of the loop body up to the sleep: read the status, return on
\* done or error, else go to sleep.
wait_poll(w) ==
    LET status == get_task_status(w.task_id)
        r == [w EXCEPT !.reads = @ + 1]
    IN IF status = "done" THEN [r EXCEPT !.state = "returned", !.result = TRUE]
       ELSE IF status = "error" THEN [r EXCEPT !.state = "returned", !.result = FALSE]
       ELSE [r EXCEPT !.state = "sleep", !.slept = 0]

\* d seconds of `await asyncio.sleep(interval)` pass; when the sleep is
\* over, `waited += interval` and the loop test.
wait_sleep(w, d) ==
    IF w.slept + d >= w.interval
    THEN LoopTest([w EXCEPT !.waited = @ + w.interval, !.slept = 0])
    ELSE [w EXCEPT !.slept = @ + d]

WaitPoll(c) ==
    /\ wait[c].state = "poll"
    /\ wait' = [wait EXCEPT ![c] = wait_poll(@)]
    /\ UNCHANGED <<now, storeVars, queueVars, catalogVars, procVars, adm, cli>>

\* A status read of a caller whose wait is not timed against the database
\* clock: the sleep that follows the read is over when the step ends.
wait_poll_sleep(w) ==
    IF wait_poll(w).state = "sleep"
    THEN wait_sleep(wait_poll(w), w.interval)
    ELSE wait_poll(w)

WaitPollSleep(c) ==
    /\ wait[c].state = "poll"
    /\ wait' = [wait EXCEPT ![c] = wait_poll_sleep(@)]
    /\ UNCHANGED <<now, storeVars, queueVars, catalogVars, procVars, adm, cli>>

\* One second passes for the clock and for every sleeping waiter; a due
\* status read is made before the clock moves on.
Second(limit) ==
    /\ now < limit
    /\ \A c \in Callers : wait[c].state # "poll"
    /\ now' = now + 1
    /\ wait' = [c \in Callers |->
                  IF wait[c].state = "sleep" THEN wait_sleep(wait[c], 1) ELSE wait[c]]
    /\ UNCHANGED <<storeVars, queueVars, catalogVars, procVars, adm, cli>>

(* ----------------------- administrative operations -------------------- *)
Perms(S) ==
    {f \in [1..Cardinality(S) -> S] : \A i, j \in 1..Cardinality(S) : i # j => f[i] # f[j]}

TasksIn(status) == {t \in DOMAIN tasks : tasks[t].status = status}

\* A listing ordered by updated_at.
OrderedByUpdatedAt(status) ==
    {[i \in DOMAIN f |-> tasks[f[i]]] : f \in
        {g \in Perms(TasksIn(status)) :
            \A i \in 1..(Cardinality(TasksIn(status)) - 1) :
                tasks[g[i]].updated_at <= tasks[g[i + 1]].updated_at}}

\* get_tasks_by_status: the rows with the status, ORDER BY created_at; rows
\* of equal created_at come in any order.
get_tasks_by_status(status) ==
    {[i \in DOMAIN f |-> tasks[f[i]]] : f \in
        {g \in Perms(TasksIn(status)) :
            \A i \in 1..(Cardinality(TasksIn(status)) - 1) :
                tasks[g[i]].created_at <= tasks[g[i + 1]].created_at}}

IdleAdmin ==
    [op |-> "idle", status |-> "pending", total_count |-> 0, listed |-> <<>>,
     result |-> <<0, 0>>]

AdminList(status) ==
    /\ adm.op # "counted"
    /\ \E rows \in get_tasks_by_status(status) :
          adm' = [IdleAdmin EXCEPT !.op = "listed", !.status = status, !.listed = rows]
    /\ UNCHANGED <<now, storeVars, queueVars, catalogVars, wait, procVars, cli>>

\* A DELETE without its WHERE clause.
DeletesEveryRow(status) == [t \in {} |-> tasks[t]]

\* delete(ProxyTaskQueue).where(status == s): the table after the DELETE.
delete_where_status(status) ==
    [t \in DOMAIN tasks \ TasksIn(status) |-> tasks[t]]

\* delete_tasks_by_status up to the DELETE: count the rows; none, return (0, 0).
AdminDeleteCount(status) ==
    /\ adm.op # "counted"
    /\ adm' = IF TasksIn(status) = {}
              THEN [IdleAdmin EXCEPT !.op = "deleted", !.status = status]
              ELSE [IdleAdmin EXCEPT !.op = "counted", !.status = status,
                                     !.total_count = Cardinality(TasksIn(status))]
    /\ UNCHANGED <<now, storeVars, queueVars, catalogVars, wait, procVars, cli>>

\* A clear operation that rolls back and fails when the DELETE removes a
\* number of rows other than the number counted.
AdminDeleteStrict ==
    /\ adm.op = "counted"
    /\ IF Cardinality(TasksIn(adm.status)) = adm.total_count
       THEN /\ tasks' = delete_where_status(adm.status)
            /\ adm' = [adm EXCEPT !.op = "deleted",
                                  !.result = <<adm.total_count, adm.total_count>>]
       ELSE /\ tasks' = tasks
            /\ adm' = [adm EXCEPT !.op = "error"]
    /\ UNCHANGED <<now, storeVars, nextTaskId, events, catalogVars, wait, procVars, cli>>

\* A clear operation that also sets the serial back to follow the highest
\* id left in the table.
AdminDeleteResetsSerial ==
    /\ adm.op = "counted"
    /\ tasks' = delete_where_status(adm.status)
    /\ nextTaskId' = 1 + Cardinality({t \in 1..nextTaskId :
                            \E x \in DOMAIN tasks \ TasksIn(adm.status) : t <= x})
    /\ adm' = [adm EXCEPT !.op = "deleted",
                          !.result = <<adm.total_count, Cardinality(TasksIn(adm.status))>>]
    /\ UNCHANGED <<now, storeVars, events, catalogVars, wait, procVars, cli>>

\* delete_tasks_by_status from the DELETE on: delete, commit, return
\* (total_count, result.rowcount).
AdminDeleteExec ==
    /\ adm.op = "counted"
    /\ tasks' = delete_where_status(adm.status)
    /\ adm' = [adm EXCEPT !.op = "deleted",
                          !.result = <<adm.total_count, Cardinality(TasksIn(adm.status))>>]
    /\ UNCHANGED <<now, storeVars, nextTaskId, events, catalogVars, wait, procVars, cli>>

\* A rollback that keeps what the transaction has written.
KeepsUncommitted(before, after) == after

\* session.rollback(): the table is what it was before the transaction.
rollback(before, after) == before

\* delete_tasks_by_status raises: the count fails, or the DELETE or its
\* commit fails after the count; `except Exception` rolls back, prints and
\* raises again.
AdminDeleteRaise(status) ==
    /\ IF adm.op = "counted"
       THEN /\ status = adm.status
            /\ tasks' = rollback(tasks, delete_where_status(status))
            /\ adm' = [adm EXCEPT !.op = "error"]
       ELSE /\ tasks' = rollback(tasks, tasks)
            /\ adm' = [IdleAdmin EXCEPT !.op = "error", !.status = status]
    /\ UNCHANGED <<now, storeVars, nextTaskId, events, catalogVars, wait, procVars, cli>>

(* -------------------- direct callers of the queue API ----------------- *)
ClientEnqueue(proxy_id, port_id, task_type) ==
    /\ nextTaskId <= MaxTasks
    /\ add_task_to_queue(proxy_id, port_id, "abc", "xyz", task_type)
    /\ cli' = [op |-> IF add_task_result(proxy_id, port_id) = NoTask
                      THEN "ValueError" ELSE "enqueued",
               task_id |-> add_task_result(proxy_id, port_id)]
    /\ UNCHANGED <<now, storeVars, catalogVars, wait, procVars, adm>>

\* add_task_to_queue whose flush or commit fails: the INSERT and the
\* notification raised by its trigger are rolled back with the transaction;
\* a value already drawn from the serial is not given back.
ClientEnqueueAborted(proxy_id, port_id, task_type) ==
    /\ nextTaskId <= MaxTasks
    /\ TaskData(proxy_id, port_id) # {}
    /\ nextTaskId' \in {nextTaskId, nextTaskId + 1}
    /\ cli' = [op |-> "SQLAlchemyError", task_id |-> NoTask]
    /\ UNCHANGED <<now, storeVars, tasks, events, catalogVars, wait, procVars, adm>>

ClientWait(task_id, timeout, interval) ==
    /\ wait["client"].state \in {"idle", "returned"}
    /\ wait' = [wait EXCEPT !["client"] = wait_enter(task_id, timeout, interval)]
    /\ UNCHANGED <<now, storeVars, queueVars, catalogVars, procVars, adm, cli>>

(* ------------------------------ purchase ------------------------------ *)
\* Locals of one run of handle_confirm_purchase, and how the last run ended.
IdlePurchase ==
    [tg_id |-> "", term |-> 0, proxy_id |-> 0, port_id |-> 0, total_price |-> 0,
     rental_id |-> 0, task_id |-> NoTask, outcome |-> ""]

\* get_first_available_proxy_by_type_id: the lowest proxy id of the type
\* with status_id == 1 whose server row joins; {} when there is none.
get_first_available_proxy_by_type_id(proxy_type_id) ==
    LET free == {p \in Proxies : /\ ProxyTypeId(p) = proxy_type_id
                                 /\ ProxyServerId(p) \in servers
                                 /\ proxyStatus[p] = 1}
    IN {p \in free : \A x \in free : p <= x}

\* get_first_available_port_id_by_server_id: the lowest port id of the
\* server with status_id == 1; {} when there is none.
get_first_available_port_id_by_server_id(server_id) ==
    LET free == {q \in Ports : PortServerId(q) = server_id /\ portStatus[q] = 1}
    IN {q \in free : \A x \in free : q <= x}

\* generate_3proxy_credentials, one login/password per buyer.
Login(u) == <<"login", u>>
Password(u) == <<"password", u>>

\* The purchase ends: a RuntimeError or another exception is reported, or
\* the success message is sent; the handler's locals are dropped.
Ended(u, how) ==
    /\ pc' = [pc EXCEPT ![u] = "idle"]
    /\ loc' = [loc EXCEPT ![u] = [IdlePurchase EXCEPT !.outcome = how]]

\* handle_confirm_purchase up to `if not proxy`, run by handler u for the
\* callback of user tg_id (callback.from_user.id).
SelectProxyFor(u, tg_id, term) ==
    /\ pc[u] = "idle"
    /\ LET found == get_first_available_proxy_by_type_id(1) IN
       IF found = {}
       THEN Ended(u, "no_proxy")
       ELSE /\ pc' = [pc EXCEPT ![u] = "select_port"]
            /\ loc' = [loc EXCEPT ![u] = [IdlePurchase EXCEPT !.tg_id = tg_id,
                                              !.term = term,
                                              !.proxy_id = CHOOSE p \in found : TRUE]]
    /\ UNCHANGED <<now, storeVars, queueVars, catalogVars, wait, rec, adm, cli>>

\* The handler of a user who has one confirmation in flight at a time.
SelectProxy(u, term) == SelectProxyFor(u, u, term)

\* ... up to `if not port_id`.
SelectPort(u) ==
    /\ pc[u] = "select_port"
    /\ LET found == get_first_available_port_id_by_server_id(ProxyServerId(loc[u].proxy_id)) IN
       IF found = {}
       THEN Ended(u, "no_port")
       ELSE /\ pc' = [pc EXCEPT ![u] = "check_balance"]
            /\ loc' = [loc EXCEPT ![u].port_id = CHOOSE q \in found : TRUE]
    /\ UNCHANGED <<now, storeVars, queueVars, catalogVars, wait, rec, adm, cli>>

\* ... the price, the balance check and the credentials.
CheckBalance(u) ==
    /\ pc[u] = "check_balance"
    /\ LET total_price == PricePerWeek * loc[u].term IN
       IF balance[loc[u].tg_id] < total_price
       THEN Ended(u, "insufficient")
       ELSE /\ pc' = [pc EXCEPT ![u] = "debit_read"]
            /\ loc' = [loc EXCEPT ![u].total_price = total_price]
    /\ UNCHANGED <<now, storeVars, queueVars, catalogVars, wait, rec, adm, cli>>

\* decrease_user_balance: read the balance, give up when it is too low.
DebitRead(u) ==
    /\ pc[u] = "debit_read"
    /\ IF balance[loc[u].tg_id] < loc[u].total_price
       THEN Ended(u, "debit_failed")
       ELSE pc' = [pc EXCEPT ![u] = "debit_write"] /\ UNCHANGED loc
    /\ UNCHANGED <<now, storeVars, queueVars, catalogVars, wait, rec, adm, cli>>

\* decrease_user_balance: balance = balance - amount, committed.
DebitWrite(u) ==
    /\ pc[u] = "debit_write"
    /\ balance' = [balance EXCEPT ![loc[u].tg_id] = @ - loc[u].total_price]
    /\ pc' = [pc EXCEPT ![u] = "create_rental"]
    /\ UNCHANGED <<now, servers, proxyStatus, portStatus, rentals, nextRentalId,
                   queueVars, catalogVars, wait, loc, rec, adm, cli>>

\* create_proxy_rental: the row, expiring `term` weeks from now, committed.
NewRental(u) ==
    [id |-> nextRentalId, user |-> loc[u].tg_id, proxy_id |-> loc[u].proxy_id,
     port_id |-> loc[u].port_id, purchase_date |-> now,
     expire_date |-> now + loc[u].term * Week,
     login |-> Login(u), password |-> Password(u)]

CreateRental(u) ==
    /\ pc[u] = "create_rental"
    /\ rentals' = rentals \cup {NewRental(u)}
    /\ nextRentalId' = nextRentalId + 1
    /\ pc' = [pc EXCEPT ![u] = "flip_proxy"]
    /\ loc' = [loc EXCEPT ![u].rental_id = nextRentalId]
    /\ UNCHANGED <<now, servers, proxyStatus, portStatus, balance,
                   queueVars, catalogVars, wait, rec, adm, cli>>

\* An update that sets the status it is given and, where the row has that
\* status already, the other one.
TogglesProxyStatus(proxy_id, status_id) ==
    proxyStatus' = [p \in Proxies |->
                      IF p # proxy_id THEN proxyStatus[p]
                      ELSE IF proxyStatus[p] # status_id THEN status_id
                      ELSE IF status_id = StatusRented THEN StatusAvailable
                      ELSE StatusRented]

\* update_proxy_status / update_port_status: UPDATE ... WHERE id = :id,
\* committed in a session of its own.
update_proxy_status(proxy_id, status_id) ==
    proxyStatus' = [p \in Proxies |-> IF p = proxy_id THEN status_id ELSE proxyStatus[p]]

\* An update that writes "Rented" whatever status it is given.
MarksPortRented(port_id, status_id) ==
    portStatus' = [q \in Ports |-> IF q = port_id THEN StatusRented ELSE portStatus[q]]

update_port_status(port_id, status_id) ==
    portStatus' = [q \in Ports |-> IF q = port_id THEN status_id ELSE portStatus[q]]

FlipProxy(u) ==
    /\ pc[u] = "flip_proxy"
    /\ update_proxy_status(loc[u].proxy_id, StatusRented)
    /\ pc' = [pc EXCEPT ![u] = "flip_port"]
    /\ UNCHANGED <<now, servers, portStatus, balance, rentals, nextRentalId,
                   queueVars, catalogVars, wait, loc, rec, adm, cli>>

FlipPort(u) ==
    /\ pc[u] = "flip_port"
    /\ update_port_status(loc[u].port_id, StatusRented)
    /\ pc' = [pc EXCEPT ![u] = "enqueue"]
    /\ UNCHANGED <<now, servers, proxyStatus, balance, rentals, nextRentalId,
                   queueVars, catalogVars, wait, loc, rec, adm, cli>>

\* add_task_to_queue for the purchase, then the entry of the wait with
\* timeout=5; a ValueError ends the handler in `except Exception`.
PurchaseEnqueue(u) ==
    /\ pc[u] = "enqueue"
    /\ nextTaskId <= MaxLifeTasks
    /\ add_task_to_queue(loc[u].proxy_id, loc[u].port_id, Login(u), Password(u), "add_proxy")
    /\ LET task_id == add_task_result(loc[u].proxy_id, loc[u].port_id) IN
       IF task_id = NoTask
       THEN Ended(u, "unexpected") /\ UNCHANGED wait
       ELSE /\ pc' = [pc EXCEPT ![u] = "wait"]
            /\ loc' = [loc EXCEPT ![u].task_id = task_id]
            /\ wait' = [wait EXCEPT ![u] = wait_enter(task_id, CallerTimeout, DefaultInterval)]
    /\ UNCHANGED <<now, storeVars, catalogVars, rec, adm, cli>>

\* A handler that undoes the purchase when the wait returns False.
PurchaseReturnRollback(u) ==
    /\ pc[u] = "wait"
    /\ wait[u].state = "returned"
    /\ Ended(u, IF wait[u].result THEN "success" ELSE "unconfirmed")
    /\ wait' = [wait EXCEPT ![u] = IdleWait]
    /\ IF wait[u].result
       THEN UNCHANGED <<balance, rentals, proxyStatus, portStatus>>
       ELSE /\ balance' = [balance EXCEPT ![u] = @ + loc[u].total_price]
            /\ rentals' = {r \in rentals : r.id # loc[u].rental_id}
            /\ proxyStatus' = [proxyStatus EXCEPT ![loc[u].proxy_id] = StatusAvailable]
            /\ portStatus' = [portStatus EXCEPT ![loc[u].port_id] = StatusAvailable]
    /\ UNCHANGED <<now, servers, nextRentalId, queueVars, catalogVars, rec, adm, cli>>

\* A handler that enqueues the task again when the wait returns False.
PurchaseReturnRetries(u) ==
    /\ pc[u] = "wait"
    /\ wait[u].state = "returned"
    /\ IF wait[u].result
       THEN Ended(u, "success")
       ELSE pc' = [pc EXCEPT ![u] = "enqueue"] /\ UNCHANGED loc
    /\ wait' = [wait EXCEPT ![u] = IdleWait]
    /\ UNCHANGED <<now, storeVars, queueVars, catalogVars, rec, adm, cli>>

\* The wait has returned: the success message, or the RuntimeError that
\* tells the user the purchase is in "my proxies" but unconfirmed.
PurchaseReturn(u) ==
    /\ pc[u] = "wait"
    /\ wait[u].state = "returned"
    /\ Ended(u, IF wait[u].result THEN "success" ELSE "unconfirmed")
    /\ wait' = [wait EXCEPT ![u] = IdleWait]
    /\ UNCHANGED <<now, storeVars, queueVars, catalogVars, rec, adm, cli>>

(* ---------------------------- reclamation ----------------------------- *)
\* The frame of clean_expired_proxy_rentals: the snapshot of the cycle, the
\* index of the rental at hand, and what the cycle has logged per rental.
IdleReclaim ==
    [pc |-> "sleep", expired |-> <<>>, i |-> 0, log |-> {}]

rental == rec.expired[rec.i]

\* A select without the `where`.
EveryRental == rentals

\* select(ProxyRental).where(expire_date <= now()), in the order the rows
\* are returned.
ExpiredRentals == {r \in rentals : r.expire_date <= now}

\* A `for` that gives up the rest of the snapshot after a rental whose wait
\* was not confirmed.
NextRentalStopsOnTimeout(log) ==
    IF rec.i < Len(rec.expired) /\ <<"timeout", rec.expired[rec.i].id>> \notin log
    THEN [rec EXCEPT !.pc = "lookup", !.i = @ + 1, !.log = log]
    ELSE [rec EXCEPT !.pc = "sleep", !.log = log]

\* The `for` statement takes the next rental, or the cycle ends in the sleep.
NextRental(log) ==
    IF rec.i < Len(rec.expired)
    THEN [rec EXCEPT !.pc = "lookup", !.i = @ + 1, !.log = log]
    ELSE [rec EXCEPT !.pc = "sleep", !.log = log]

Snapshot ==
    /\ rec.pc = "sleep"
    /\ \E f \in Perms(ExpiredRentals) :
          rec' = IF f = <<>>
                 THEN [IdleReclaim EXCEPT !.pc = "sleep"]
                 ELSE [IdleReclaim EXCEPT !.pc = "lookup", !.expired = f, !.i = 1]
    /\ UNCHANGED <<now, storeVars, queueVars, catalogVars, wait, pc, loc, adm, cli>>

\* A lookup whose failure is handled like an exception, by the forced
\* cleanup.
ReclaimLookupForces ==
    /\ rec.pc = "lookup"
    /\ rec' = IF TaskData(rental.proxy_id, rental.port_id) = {}
              THEN [rec EXCEPT !.pc = "force_proxy"]
              ELSE [rec EXCEPT !.pc = "enqueue"]
    /\ UNCHANGED <<now, storeVars, queueVars, catalogVars, wait, pc, loc, adm, cli>>

\* The join of the loop; without data: "Skipping." and `continue`.
ReclaimLookup ==
    /\ rec.pc = "lookup"
    /\ rec' = IF TaskData(rental.proxy_id, rental.port_id) = {}
              THEN NextRental(rec.log \cup {<<"skipped", rental.id>>})
              ELSE [rec EXCEPT !.pc = "enqueue"]
    /\ UNCHANGED <<now, storeVars, queueVars, catalogVars, wait, pc, loc, adm, cli>>

\* add_task_to_queue(..., "remove_proxy") and the entry of the wait with
\* timeout=5; a ValueError is caught by `except Exception`.
ReclaimEnqueue ==
    /\ rec.pc = "enqueue"
    /\ nextTaskId <= MaxLifeTasks
    /\ add_task_to_queue(rental.proxy_id, rental.port_id, rental.login,
                         rental.password, "remove_proxy")
    /\ LET task_id == add_task_result(rental.proxy_id, rental.port_id) IN
       IF task_id = NoTask
       THEN rec' = [rec EXCEPT !.pc = "force_proxy"] /\ UNCHANGED wait
       ELSE /\ rec' = [rec EXCEPT !.pc = "wait"]
            /\ wait' = [wait EXCEPT !["reclaimer"] =
                            wait_enter(task_id, CallerTimeout, DefaultInterval)]
    /\ UNCHANGED <<now, storeVars, catalogVars, pc, loc, adm, cli>>

\* A loop that goes on to the cleanup only after a confirmed task.
ReclaimWaitedConfirmed ==
    /\ rec.pc = "wait"
    /\ wait["reclaimer"].state = "returned"
    /\ wait["reclaimer"].result
    /\ rec' = [rec EXCEPT !.pc = "free_proxy"]
    /\ wait' = [wait EXCEPT !["reclaimer"] = IdleWait]
    /\ UNCHANGED <<now, storeVars, queueVars, catalogVars, pc, loc, adm, cli>>

\* A loop that cancels the task it has stopped waiting for.
ReclaimWaitedCancels ==
    /\ rec.pc = "wait"
    /\ wait["reclaimer"].state = "returned"
    /\ rec' = [rec EXCEPT !.pc = "free_proxy",
                          !.log = IF wait["reclaimer"].result THEN @
                                  ELSE @ \cup {<<"timeout", rental.id>>}]
    /\ tasks' = IF wait["reclaimer"].result THEN tasks
                ELSE [tasks EXCEPT ![wait["reclaimer"].task_id].status = "error"]
    /\ wait' = [wait EXCEPT !["reclaimer"] = IdleWait]
    /\ UNCHANGED <<now, storeVars, nextTaskId, events, catalogVars, pc, loc, adm, cli>>

\* The wait has returned, with either result.
ReclaimWaited ==
    /\ rec.pc = "wait"
    /\ wait["reclaimer"].state = "returned"
    /\ rec' = [rec EXCEPT !.pc = "free_proxy",
                          !.log = IF wait["reclaimer"].result THEN @
                                  ELSE @ \cup {<<"timeout", rental.id>>}]
    /\ wait' = [wait EXCEPT !["reclaimer"] = IdleWait]
    /\ UNCHANGED <<now, storeVars, queueVars, catalogVars, pc, loc, adm, cli>>

\* update_proxy_status(rental.proxy_id, "Available"), in the cleanup and in
\* the forced cleanup.
ReclaimFreeProxy ==
    /\ rec.pc \in {"free_proxy", "force_proxy"}
    /\ update_proxy_status(rental.proxy_id, StatusAvailable)
    /\ rec' = [rec EXCEPT !.pc = IF rec.pc = "free_proxy" THEN "free_port" ELSE "force_port"]
    /\ UNCHANGED <<now, servers, portStatus, balance, rentals, nextRentalId,
                   queueVars, catalogVars, wait, pc, loc, adm, cli>>

\* update_port_status(rental.port_id, "Available").
ReclaimFreePort ==
    /\ rec.pc \in {"free_port", "force_port"}
    /\ update_port_status(rental.port_id, StatusAvailable)
    /\ rec' = [rec EXCEPT !.pc = IF rec.pc = "free_port" THEN "delete" ELSE "force_delete"]
    /\ UNCHANGED <<now, servers, proxyStatus, balance, rentals, nextRentalId,
                   queueVars, catalogVars, wait, pc, loc, adm, cli>>

\* A delete that never reaches the table.
DeleteNotFlushed(r) == rentals' = rentals

\* session.delete(rental) and the commit: DELETE ... WHERE id = :id.
delete_rental(r) == rentals' = {x \in rentals : x.id # r.id}

ReclaimDelete ==
    /\ rec.pc \in {"delete", "force_delete"}
    /\ delete_rental(rental)
    /\ rec' = NextRental(rec.log \cup
                {<<IF rec.pc = "delete" THEN "cleaned" ELSE "forced", rental.id>>})
    /\ UNCHANGED <<now, servers, proxyStatus, portStatus, balance, nextRentalId,
                   queueVars, catalogVars, wait, pc, loc, adm, cli>>

(* --------------------------- storage failures ------------------------- *)
\* An exception handler that logs the error and goes on to the next rental
\* without the forced cleanup.
ReclaimRaiseSkips ==
    /\ rec.pc \in {"lookup", "enqueue", "wait", "delete"}
    /\ rec.pc = "wait" => wait["reclaimer"].state = "poll"
    /\ rec' = NextRental(rec.log \cup {<<"raised", rental.id>>})
    /\ wait' = [wait EXCEPT !["reclaimer"] = IdleWait]
    /\ UNCHANGED <<now, storeVars, queueVars, catalogVars, pc, loc, adm, cli>>

\* A statement inside the `try` raises: the join of the loop, the select of
\* add_task_to_queue, a status read of the wait, or the commit that deletes
\* the rental. `except Exception as e` starts the forced cleanup.
ReclaimRaise ==
    /\ rec.pc \in {"lookup", "enqueue", "wait", "delete"}
    /\ rec.pc = "wait" => wait["reclaimer"].state = "poll"
    /\ rec' = [rec EXCEPT !.pc = "force_proxy",
                          !.log = @ \cup {<<"raised", rental.id>>}]
    /\ wait' = [wait EXCEPT !["reclaimer"] = IdleWait]
    /\ UNCHANGED <<now, storeVars, queueVars, catalogVars, pc, loc, adm, cli>>

\* The commit that deletes the rental takes effect in the database and
\* still raises in the loop (the connection is lost before the answer).
ReclaimCommitLost ==
    /\ rec.pc = "delete"
    /\ delete_rental(rental)
    /\ rec' = [rec EXCEPT !.pc = "force_proxy",
                          !.log = @ \cup {<<"raised", rental.id>>}]
    /\ UNCHANGED <<now, servers, proxyStatus, portStatus, balance, nextRentalId,
                   queueVars, catalogVars, wait, pc, loc, adm, cli>>

\* update_proxy_status / update_port_status catch SQLAlchemyError, roll
\* back and return False; the loop does not look at what they return.
ReclaimUpdateFailed ==
    /\ rec.pc \in {"free_proxy", "free_port", "force_proxy", "force_port"}
    /\ rec' = [rec EXCEPT !.pc = CASE rec.pc = "free_proxy" -> "free_port"
                                  [] rec.pc = "free_port" -> "delete"
                                  [] rec.pc = "force_proxy" -> "force_port"
                                  [] rec.pc = "force_port" -> "force_delete"]
    /\ UNCHANGED <<now, storeVars, queueVars, catalogVars, wait, pc, loc, adm, cli>>

\* The commit of the forced cleanup raises: "Secondary error while
\* removing" is logged, then the error of the rental, and the `for` goes on.
ReclaimForcedRaise ==
    /\ rec.pc = "force_delete"
    /\ rec' = NextRental(rec.log \cup {<<"secondary", rental.id>>})
    /\ UNCHANGED <<now, storeVars, queueVars, catalogVars, wait, pc, loc, adm, cli>>

\* The commit of add_task_to_queue raises under the purchase: no row and no
\* notification are left, a value drawn from the serial is not given back,
\* and the SQLAlchemyError ends the handler in `except Exception`.
PurchaseEnqueueAborted(u) ==
    /\ pc[u] = "enqueue"
    /\ nextTaskId <= MaxLifeTasks
    /\ TaskData(loc[u].proxy_id, loc[u].port_id) # {}
    /\ nextTaskId' \in {nextTaskId, nextTaskId + 1}
    /\ Ended(u, "unexpected")
    /\ UNCHANGED <<now, storeVars, tasks, events, catalogVars, wait, rec, adm, cli>>

\* The select of the expired rentals raises: it stands outside every `try`,
\* so the exception ends the coroutine.
SnapshotRaise ==
    /\ rec.pc = "sleep"
    /\ rec' = [rec EXCEPT !.pc = "halted"]
    /\ UNCHANGED <<now, storeVars, queueVars, catalogVars, wait, pc, loc, adm, cli>>

(* ----------------------------- environment ---------------------------- *)
\* A proxy_servers row disappears from the database.
ServerRemoved(s) ==
    /\ s \in servers
    /\ servers' = servers \ {s}
    /\ UNCHANGED <<now, proxyStatus, portStatus, balance, rentals, nextRentalId,
                   queueVars, catalogVars, wait, procVars, adm, cli>>

\* The clock of the rentals moves on. A purchase handler is over within
\* seconds, before the rental it has just created expires.
InFlight(u) == pc[u] \in {"flip_proxy", "flip_port", "enqueue", "wait"}

TickTo(limit) ==
    /\ now < limit
    /\ \A u \in Users : \A r \in rentals :
          (InFlight(u) /\ r.id = loc[u].rental_id) => r.expire_date > now + 1
    /\ now' = now + 1
    /\ UNCHANGED <<storeVars, queueVars, catalogVars, wait, procVars, adm, cli>>

Tick == TickTo(MaxLifeTime)

(* ------------------------------- queue spec --------------------------- *)
\* The database after startup with the inventory loaded; every user has
\* topped up the price of `weeks` rental weeks.
InitWith(weeks) ==
    /\ now = 0
    /\ servers = Servers
    /\ proxyStatus = [p \in Proxies |-> StatusAvailable]
    /\ portStatus = [q \in Ports |-> StatusAvailable]
    /\ balance = [u \in Users |-> weeks * PricePerWeek]
    /\ rentals = {}
    /\ nextRentalId = 1
    /\ tasks = << >>
    /\ nextTaskId = 1
    /\ events = {}
    /\ functions = {"notify_proxy_task_insert", "update_proxy_task_updated_at"}
    /\ triggers = {"trg_proxy_task_insert", "trg_update_proxy_task_updated_at"}
    /\ inst = IdleInstall
    /\ wait = [c \in Callers |-> IdleWait]
    /\ pc = [u \in Users |-> "idle"]
    /\ loc = [u \in Users |-> IdlePurchase]
    /\ rec = IdleReclaim
    /\ adm = IdleAdmin
    /\ cli = [op |-> "idle", task_id |-> NoTask]

Init == InitWith(2)
InitRace == InitWith(1)

NextQueue ==
    \/ \E p \in ProxyIdArgs, q \in PortIdArgs, k \in TaskTypes : ClientEnqueue(p, q, k)
    \/ \E p \in ProxyIdArgs, q \in PortIdArgs, k \in TaskTypes : ClientEnqueueAborted(p, q, k)
    \/ \E t \in 1..MaxTasks : WorkerTake(t)
    \/ \E t \in 1..MaxTasks, s \in Terminal : WorkerFinish(t, s)
    \/ \E t \in 1..MaxTasks : WorkerNote(t)
    \/ Second(MaxTime)
    \/ \E s \in TaskStatusEnum : AdminList(s)
    \/ \E s \in TaskStatusEnum : AdminDeleteCount(s)
    \/ AdminDeleteExec
    \/ \E s \in TaskStatusEnum : AdminDeleteRaise(s)

SpecQueue == Init /\ [][NextQueue]_vars

(* ------------------------------- wait spec ---------------------------- *)
NextWait ==
    \/ \E p \in ProxyIdArgs, q \in PortIdArgs, k \in TaskTypes :
          nextTaskId <= MaxWaitTasks /\ ClientEnqueue(p, q, k)
    \/ \E t \in 1..MaxTasks : WorkerTake(t)
    \/ \E t \in 1..MaxTasks, s \in Terminal : WorkerFinish(t, s)
    \/ \E t \in 1..MaxTasks, timeout \in Timeouts, interval \in Intervals :
          t < nextTaskId /\ ClientWait(t, timeout, interval)
    \/ WaitPoll("client")
    \/ Second(MaxWaitTime)

SpecWait == Init /\ [][NextWait]_vars

\* The same waiter while the administrator clears the queue by status.
NextWaitDel ==
    \/ \E p \in ProxyIdArgs, q \in PortIdArgs, k \in TaskTypes :
          nextTaskId <= MaxWaitTasks /\ ClientEnqueue(p, q, k)
    \/ \E t \in 1..MaxTasks : WorkerTake(t)
    \/ \E t \in 1..MaxTasks, s \in Terminal : WorkerFinish(t, s)
    \/ \E t \in 1..MaxTasks, timeout \in Timeouts, interval \in Intervals :
          t < nextTaskId /\ ClientWait(t, timeout, interval)
    \/ WaitPoll("client")
    \/ \E s \in TaskStatusEnum : AdminDeleteCount(s)
    \/ AdminDeleteExec
    \/ Second(MaxWaitTime)

SpecWaitDel == Init /\ [][NextWaitDel]_vars

\* A status read with the sleep that follows it, for any interval from zero
\* on; the count of reads stops at MaxCountedReads.
WaitPollCounted(c) ==
    /\ wait[c].state = "poll"
    /\ wait' = [wait EXCEPT ![c] =
                  [wait_poll_sleep(@) EXCEPT
                      !.reads = IF @ > MaxCountedReads THEN MaxCountedReads ELSE @]]
    /\ UNCHANGED <<now, storeVars, queueVars, catalogVars, procVars, adm, cli>>

\* The waiter called with any timeout and interval from zero on, beside a
\* worker that may or may not serve the task; the event loop keeps running
\* the waiting coroutine.
NextWaitAny ==
    \/ \E p \in ProxyIdArgs, q \in PortIdArgs, k \in TaskTypes :
          nextTaskId <= MaxWaitTasks /\ ClientEnqueue(p, q, k)
    \/ \E t \in 1..MaxTasks : WorkerTake(t)
    \/ \E t \in 1..MaxTasks, s \in Terminal : WorkerFinish(t, s)
    \/ \E t \in 1..MaxTasks, timeout \in AnyTimeouts, interval \in AnyIntervals :
          t < nextTaskId /\ ClientWait(t, timeout, interval)
    \/ WaitPollCounted("client")

SpecWaitAny == Init /\ [][NextWaitAny]_vars /\ WF_vars(WaitPollCounted("client"))

(* ---------------------------- install spec ---------------------------- *)
\* The two installations run again and again, at any state of the catalogs,
\* while tasks are enqueued and served.
NextInstall ==
    \/ create_proxy_task_queue_trigger
    \/ create_proxy_task_queue_update_trigger
    \/ \E t \in {"trg_proxy_task_insert", "trg_update_proxy_task_updated_at"} :
          TriggerDropped(t)
    \/ \E f \in {"notify_proxy_task_insert", "update_proxy_task_updated_at"} :
          FunctionDropped(f)
    \/ \E p \in ProxyIdArgs, q \in PortIdArgs, k \in TaskTypes :
          nextTaskId <= MaxWaitTasks /\ ClientEnqueue(p, q, k)
    \/ \E t \in 1..MaxTasks : WorkerTake(t)
    \/ \E t \in 1..MaxTasks, s \in Terminal : WorkerFinish(t, s)

SpecInstall == Init /\ [][NextInstall]_vars

(* ======================= properties of the queue ====================== *)
w == wait["client"]

\* C4: a successful Enqueue hands out its id with the row committed, and
\* get_task_status on that id right after the call is pending, not None.
C4_EnqueueThenPending ==
    [][\A p \in ProxyIdArgs, q \in PortIdArgs, k \in TaskTypes :
          (ClientEnqueue(p, q, k) /\ cli'.op = "enqueued")
              => /\ cli'.task_id \in DOMAIN tasks'
                 /\ cli'.task_id \notin DOMAIN tasks
                 /\ get_task_status(cli.task_id)' = "pending"]_vars

C4_Witness ==
    /\ cli.op = "enqueued"
    /\ cli.task_id \in DOMAIN tasks
    /\ tasks[cli.task_id].status = "pending"
    /\ Cardinality(DOMAIN tasks) = 2

\* C5: an Enqueue whose join finds no row fails with ValueError and leaves
\* the table, the serial and the notification channel unchanged.
C5_LookupFailureLeavesQueue ==
    [][\A p \in ProxyIdArgs, q \in PortIdArgs, k \in TaskTypes :
          (ClientEnqueue(p, q, k) /\ (p \notin Proxies \/ q \notin Ports))
              => (cli'.op = "ValueError" /\ UNCHANGED queueVars)]_vars

C5_Witness ==
    /\ cli.op = "ValueError"
    /\ DOMAIN tasks # {}
    /\ Cardinality(events) = Cardinality(DOMAIN tasks)

\* C6: updated_at is unset while a task is pending or processing, is set
\* at the step that first reaches done or error, and never changes later.
C6_UpdatedAtInv ==
    \A t \in DOMAIN tasks : (tasks[t].updated_at # NoTime) <=> (tasks[t].status \in Terminal)

C6_UpdatedAtStep ==
    \A t \in DOMAIN tasks \cap DOMAIN tasks' :
        /\ (tasks[t].status \notin Terminal /\ tasks'[t].status \in Terminal)
              => tasks'[t].updated_at = now
        /\ tasks[t].updated_at # NoTime => tasks'[t].updated_at = tasks[t].updated_at

C7_DeleteByStatusFrame ==
    [][(AdminDeleteExec \/ \E s \in TaskStatusEnum : (AdminDeleteCount(s) /\ adm'.op = "deleted"))
          => /\ \A t \in DOMAIN tasks' : tasks'[t].status # adm'.status
             /\ \A t \in DOMAIN tasks :
                   tasks[t].status # adm'.status
                       => (t \in DOMAIN tasks' /\ tasks'[t] = tasks[t])]_vars

C7_Witness ==
    /\ adm.op = "deleted"
    /\ adm.result[2] > 0
    /\ DOMAIN tasks # {}

\* C8: get_tasks_by_status(status) returns exactly the rows now in that
\* status, in ascending order of created_at, whatever their updated_at.
C8_ListByStatusFifo ==
    [][\A s \in TaskStatusEnum :
          AdminList(s)
              => /\ Len(adm'.listed) = Cardinality(TasksIn(s))
                 /\ {adm'.listed[i] : i \in DOMAIN adm'.listed} = {tasks[t] : t \in TasksIn(s)}
                 /\ \A i, j \in DOMAIN adm'.listed :
                       i < j => adm'.listed[i].created_at <= adm'.listed[j].created_at]_vars

C8_Witness ==
    /\ adm.op = "listed"
    /\ Len(adm.listed) = 2
    /\ adm.listed[1].created_at < adm.listed[2].created_at
    /\ adm.listed[1].updated_at > adm.listed[2].updated_at
    /\ adm.listed[2].updated_at # NoTime

(* ======================= properties of the wait ======================= *)
\* The task became done less than `d` seconds after the wait began.
DoneWithin(d) ==
    /\ w.task_id \in DOMAIN tasks
    /\ tasks[w.task_id].status = "done"
    /\ tasks[w.task_id].updated_at - w.start < d

\* Elapsed time at the last status read of a wait that is not cut short.
LastReadAt == ((w.timeout - 1) \div w.interval) * w.interval

\* C3 as stated: the wait returns true iff the task becomes done strictly
\* before the timeout elapses.
C3_TrueIffDoneBeforeTimeout ==
    w.state = "returned" => (w.result <=> DoneWithin(w.timeout))

\* C3 as amended: the wait returns true only if the task is done and became
\* so no later than the last status read, and it does return true when the
\* task became done before the last status read; a done that arrives after
\* the last read, an error, and a task still running all give false.
C3_TrueIffDoneAtARead ==
    w.state = "returned" =>
        /\ w.result => DoneWithin(LastReadAt + 1)
        /\ DoneWithin(LastReadAt) => w.result

C3_Witness ==
    /\ w.state = "returned" /\ w.result
    /\ tasks[w.task_id].updated_at > w.start
    /\ w.reads = 2

\* C10 as stated: the wait reads the status at most timeout/poll_interval
\* times.
C10_ReadsAtMostQuotient == w.reads * w.interval <= w.timeout

\* C10 as amended: the wait reads the status at most
\* ceil(timeout/poll_interval) times, returns true only on a read of done,
\* and for a task the worker never updates returns false after exactly
\* that many reads (two for timeout=2, poll_interval=1).
C10_ReadsAtMostCeiling ==
    /\ w.reads > 0 => (w.reads - 1) * w.interval < w.timeout
    /\ (w.state = "returned" /\ w.result) => get_task_status(w.task_id) = "done"
    /\ (w.state = "returned" /\ get_task_status(w.task_id) = "pending")
          => /\ ~w.result
             /\ w.reads = (w.timeout + w.interval - 1) \div w.interval

C10_Witness ==
    /\ w.state = "returned" /\ ~w.result
    /\ w.timeout = 2 /\ w.interval = 1 /\ w.reads = 2
    /\ get_task_status(w.task_id) = "pending"

(* ------------------------------ lifecycle spec ------------------------ *)
\* One buyer, the worker, the reclamation loop and the clock of the rentals.
Next ==
    \/ \E term \in Terms : SelectProxy(Buyer, term)
    \/ SelectPort(Buyer)
    \/ CheckBalance(Buyer)
    \/ DebitRead(Buyer)
    \/ DebitWrite(Buyer)
    \/ CreateRental(Buyer)
    \/ FlipProxy(Buyer)
    \/ FlipPort(Buyer)
    \/ PurchaseEnqueue(Buyer)
    \/ PurchaseReturn(Buyer)
    \/ \E c \in {Buyer, "reclaimer"} : WaitPollSleep(c)
    \/ \E t \in 1..MaxLifeTasks : WorkerTake(t)
    \/ \E t \in 1..MaxLifeTasks, s \in Terminal : WorkerFinish(t, s)
    \/ Snapshot
    \/ ReclaimLookup
    \/ ReclaimEnqueue
    \/ ReclaimWaited
    \/ ReclaimFreeProxy
    \/ ReclaimFreePort
    \/ ReclaimDelete
    \/ \E s \in Servers : ServerRemoved(s)
    \/ Tick

Spec == Init /\ [][Next]_vars

\* The lifecycle where the reclamation loop is scheduled fairly: the event
\* loop runs the coroutine whenever it is ready, its sleeps end. The worker,
\* the buyer and the clock are under no obligation. The buyer has topped up
\* the price of one rental week.
ReclaimRun ==
    \/ Snapshot
    \/ ReclaimLookup
    \/ ReclaimEnqueue
    \/ WaitPollSleep("reclaimer")
    \/ ReclaimWaited
    \/ ReclaimFreeProxy
    \/ ReclaimFreePort
    \/ ReclaimDelete

InitLive == InitWith(1)

SpecLive == InitLive /\ [][Next]_vars /\ WF_vars(ReclaimRun)

(* ------------------------------ purchase race spec -------------------- *)
\* Several users confirm a purchase at once while the worker serves the
\* queue and the commit of an enqueue can fail; the reclamation loop is
\* asleep and no rental expires meanwhile.
NextRace ==
    \/ \E u \in Users, term \in Terms : SelectProxy(u, term)
    \/ \E u \in Users : SelectPort(u)
    \/ \E u \in Users : CheckBalance(u)
    \/ \E u \in Users : DebitRead(u)
    \/ \E u \in Users : DebitWrite(u)
    \/ \E u \in Users : CreateRental(u)
    \/ \E u \in Users : FlipProxy(u)
    \/ \E u \in Users : FlipPort(u)
    \/ \E u \in Users : PurchaseEnqueue(u)
    \/ \E u \in Users : PurchaseEnqueueAborted(u)
    \/ \E u \in Users : PurchaseReturn(u)
    \/ \E c \in Users : WaitPollSleep(c)
    \/ \E t \in 1..MaxLifeTasks : WorkerTake(t)
    \/ \E t \in 1..MaxLifeTasks, s \in Terminal : WorkerFinish(t, s)

SpecRace == InitRace /\ [][NextRace]_vars

\* The buyer and the reclamation loop over a clock long enough for a second
\* rental to expire while the first is being reclaimed; no worker serves
\* the queue, so every wait ends by its timeout.
NextExpiry ==
    \/ \E term \in Terms : SelectProxy(Buyer, term)
    \/ SelectPort(Buyer)
    \/ CheckBalance(Buyer)
    \/ DebitRead(Buyer)
    \/ DebitWrite(Buyer)
    \/ CreateRental(Buyer)
    \/ FlipProxy(Buyer)
    \/ FlipPort(Buyer)
    \/ PurchaseEnqueue(Buyer)
    \/ PurchaseReturn(Buyer)
    \/ \E c \in {Buyer, "reclaimer"} : WaitPollSleep(c)
    \/ Snapshot
    \/ ReclaimLookup
    \/ ReclaimEnqueue
    \/ ReclaimWaited
    \/ ReclaimFreeProxy
    \/ ReclaimFreePort
    \/ ReclaimDelete
    \/ TickTo(MaxExpiryTime)

SpecExpiry == Init /\ [][NextExpiry]_vars

(* ------------------------------ startup ------------------------------ *)
\* main() of run.py. Its position is read from what it has done so far: the
\* frame of the last installation, and whether the reclamation task exists.
\* A main that creates the reclamation task first of all.
MainCreateTaskFirst ==
    /\ rec.pc = "unstarted"
    /\ rec' = IdleReclaim
    /\ UNCHANGED <<now, storeVars, queueVars, catalogVars, wait, pc, loc, adm, cli>>

\* await create_proxy_task_queue_trigger()
MainCreateInsertTrigger ==
    /\ rec.pc = "unstarted"
    /\ inst = IdleInstall
    /\ create_proxy_task_queue_trigger

\* asyncio.create_task(clean_expired_proxy_rentals())
MainCreateTask ==
    /\ rec.pc = "unstarted"
    /\ inst.function = "notify_proxy_task_insert"
    /\ inst.outcome = "installed"
    /\ rec' = IdleReclaim
    /\ UNCHANGED <<now, storeVars, queueVars, catalogVars, wait, pc, loc, adm, cli>>

\* await create_proxy_task_queue_update_trigger()
MainCreateUpdateTrigger ==
    /\ rec.pc # "unstarted"
    /\ inst.function = "notify_proxy_task_insert"
    /\ create_proxy_task_queue_update_trigger

\* dp.start_polling(bot) has been reached: handlers run.
start_polling ==
    /\ inst.function = "update_proxy_task_updated_at"
    /\ inst.outcome = "installed"

\* A rental left by an earlier run of the process, expired by now.
OldRental ==
    [id |-> 1, user |-> Buyer, proxy_id |-> 1, port_id |-> 1, purchase_date |-> 0,
     expire_date |-> 1, login |-> Login(Buyer), password |-> Password(Buyer)]

\* The process starts on a database that is new or was left by an earlier
\* run, with or without the functions and triggers in its catalogs.
InitStart ==
    /\ now = 1
    /\ servers = Servers
    /\ rentals \in {{}, {OldRental}}
    /\ proxyStatus = [p \in Proxies |->
                        IF \E r \in rentals : r.proxy_id = p
                        THEN StatusRented ELSE StatusAvailable]
    /\ portStatus = [q \in Ports |->
                       IF \E r \in rentals : r.port_id = q
                       THEN StatusRented ELSE StatusAvailable]
    /\ balance = [u \in Users |-> PricePerWeek]
    /\ nextRentalId = 2
    /\ tasks = << >>
    /\ nextTaskId = 1
    /\ events = {}
    /\ functions \in SUBSET {"notify_proxy_task_insert", "update_proxy_task_updated_at"}
    /\ triggers \in SUBSET {"trg_proxy_task_insert", "trg_update_proxy_task_updated_at"}
    /\ "trg_proxy_task_insert" \in triggers => "notify_proxy_task_insert" \in functions
    /\ "trg_update_proxy_task_updated_at" \in triggers
          => "update_proxy_task_updated_at" \in functions
    /\ inst = IdleInstall
    /\ wait = [c \in Callers |-> IdleWait]
    /\ pc = [u \in Users |-> "idle"]
    /\ loc = [u \in Users |-> IdlePurchase]
    /\ rec = [IdleReclaim EXCEPT !.pc = "unstarted"]
    /\ adm = IdleAdmin
    /\ cli = [op |-> "idle", task_id |-> NoTask]

NextStart ==
    \/ MainCreateInsertTrigger
    \/ MainCreateTask
    \/ MainCreateUpdateTrigger
    \/ \E term \in Terms : start_polling /\ SelectProxy(Buyer, term)
    \/ SelectPort(Buyer)
    \/ CheckBalance(Buyer)
    \/ DebitRead(Buyer)
    \/ DebitWrite(Buyer)
    \/ CreateRental(Buyer)
    \/ FlipProxy(Buyer)
    \/ FlipPort(Buyer)
    \/ PurchaseEnqueue(Buyer)
    \/ PurchaseReturn(Buyer)
    \/ \E c \in {Buyer, "reclaimer"} : WaitPollSleep(c)
    \/ \E t \in 1..MaxLifeTasks : WorkerTake(t)
    \/ \E t \in 1..MaxLifeTasks, s \in Terminal : WorkerFinish(t, s)
    \/ Snapshot
    \/ ReclaimLookup
    \/ ReclaimEnqueue
    \/ ReclaimWaited
    \/ ReclaimFreeProxy
    \/ ReclaimFreePort
    \/ ReclaimDelete

SpecStart == InitStart /\ [][NextStart]_vars

\* Two handlers run for confirmations of one and the same user (polling
\* handles every update in a task of its own), beside the worker.
NextSameUser ==
    \/ \E u \in Users, term \in Terms : SelectProxyFor(u, Buyer, term)
    \/ \E u \in Users : SelectPort(u)
    \/ \E u \in Users : CheckBalance(u)
    \/ \E u \in Users : DebitRead(u)
    \/ \E u \in Users : DebitWrite(u)
    \/ \E u \in Users : CreateRental(u)
    \/ \E u \in Users : FlipProxy(u)
    \/ \E u \in Users : FlipPort(u)
    \/ \E u \in Users : PurchaseEnqueue(u)
    \/ \E u \in Users : PurchaseReturn(u)
    \/ \E c \in Users : WaitPollSleep(c)
    \/ \E t \in 1..MaxLifeTasks : WorkerTake(t)
    \/ \E t \in 1..MaxLifeTasks, s \in Terminal : WorkerFinish(t, s)

SpecSameUser == Init /\ [][NextSameUser]_vars

(* ===================== properties of the lifecycle ==================== *)
\* The step that ends a reclamation cycle: the `for` statement is exhausted
\* and the loop reaches its sleep.
CycleCompletes == rec.pc # "sleep" /\ rec'.pc = "sleep"

\* The rentals the cycle found expired when it began.
Snapshotted == {rec.expired[i] : i \in DOMAIN rec.expired}

Absent(r) == \A x \in rentals : x.id # r.id
Freed(r) ==
    /\ proxyStatus[r.proxy_id] = StatusAvailable
    /\ portStatus[r.port_id] = StatusAvailable
Logged(kind, r) == <<kind, r.id>> \in rec.log

\* Another rental in the store holds the proxy / the port of rental r.
ProxyRentedAnew(r) ==
    \E x \in rentals : x.id # r.id /\ x.proxy_id = r.proxy_id
PortRentedAnew(r) ==
    \E x \in rentals : x.id # r.id /\ x.port_id = r.port_id

FreedOrRentedAnew(r) ==
    /\ proxyStatus[r.proxy_id] = StatusAvailable \/ ProxyRentedAnew(r)
    /\ portStatus[r.port_id] = StatusAvailable \/ PortRentedAnew(r)

\* A remove_proxy task enqueued for rental r once it had expired.
RemoveTaskFor(r) ==
    \E t \in DOMAIN tasks :
        /\ tasks[t].task_type = "remove_proxy"
        /\ tasks[t].payload.internal_ip = InternalIp(r.proxy_id)
        /\ tasks[t].payload.port = PortNumber(r.port_id)
        /\ tasks[t].payload.login = r.login
        /\ tasks[t].created_at >= r.expire_date

\* C1 as stated: when a reclamation cycle completes, every rental that was
\* expired at its start is gone and its proxy and port are available.
C1_ExpiredAllReclaimed ==
    [][CycleCompletes => \A r \in Snapshotted : Absent(r)' /\ Freed(r)']_vars

\* C1 as amended: when a reclamation cycle completes, every rental that was
\* expired at its start and was not skipped for want of its server/port
\* data is gone, whether its task reached done, reached error or the wait
\* timed out; its proxy and its port are available unless another rental
\* in the store holds them.
C1_ExpiredReclaimedUnlessSkipped ==
    [][CycleCompletes =>
          \A r \in Snapshotted :
              ~Logged("skipped", r)' =>
                  (Absent(r)' /\ FreedOrRentedAnew(r)')]_vars

C1_Witness ==
    /\ rec.pc = "sleep"
    /\ Len(rec.expired) = 2
    /\ \A r \in Snapshotted : Logged("cleaned", r) /\ Absent(r) /\ Freed(r)
    /\ \E r \in Snapshotted : Logged("timeout", r)
    /\ \E r \in Snapshotted : ~Logged("timeout", r)
    /\ \E t \in DOMAIN tasks : tasks[t].task_type = "remove_proxy" /\ tasks[t].status = "error"
    /\ \E t \in DOMAIN tasks : tasks[t].task_type = "remove_proxy" /\ tasks[t].status = "done"

\* C2: no two rentals that are both unexpired reference the same proxy and
\* the same port.
C2_NoSharedProxyPort ==
    \A r1, r2 \in rentals :
        (r1.id # r2.id /\ r1.expire_date > now /\ r2.expire_date > now)
            => ~(r1.proxy_id = r2.proxy_id /\ r1.port_id = r2.port_id)

\* C9 as stated: a rental whose remove_proxy task was never created because
\* the lookup of its data failed is, when the cycle completes, gone with its
\* proxy and port available.
C9_LookupFailureStillReclaimed ==
    [][CycleCompletes =>
          \A r \in Snapshotted :
              (Logged("skipped", r)' \/ Logged("forced", r)')
                  => (Absent(r)' /\ Freed(r)')]_vars

\* C9 as amended: a rental for which the loop's own lookup fails is skipped;
\* when the cycle completes its row is still there and no task was created
\* for it. A rental whose lookup succeeds and whose enqueue then fails on
\* its lookup is removed by the forced cleanup, without a task; its proxy
\* and port are available unless another rental in the store holds them.
C9_LookupFailureSkipsOrForces ==
    [][CycleCompletes =>
          \A r \in Snapshotted :
              /\ Logged("skipped", r)' => (r \in rentals' /\ ~RemoveTaskFor(r)')
              /\ Logged("forced", r)'
                    => (Absent(r)' /\ FreedOrRentedAnew(r)' /\ ~RemoveTaskFor(r)')]_vars

C9_Witness ==
    /\ rec.pc = "sleep"
    /\ \E r \in Snapshotted : Logged("skipped", r) /\ r \in rentals /\ ~Freed(r)
    /\ \E r \in Snapshotted : Logged("forced", r) /\ Absent(r) /\ Freed(r)
    /\ \A t \in DOMAIN tasks : tasks[t].task_type = "add_proxy"

(* ================= properties of the queue, continued ================= *)
\* C11: delete_tasks_by_status returns (total_count, rowcount): total_count
\* is the number of rows in the status when counted, rowcount the number of
\* rows the DELETE removed; they are equal when as many rows are in the
\* status at the DELETE as were counted, and a difference is returned like
\* any other result, with the DELETE committed.
C11_CountsReturnedAsTheyAre ==
    [][/\ \A s \in TaskStatusEnum :
             AdminDeleteCount(s) =>
                 /\ adm'.op = "counted" =>
                        (adm'.total_count = Cardinality(TasksIn(s)) /\ adm'.total_count > 0)
                 /\ adm'.op = "deleted" =>
                        (TasksIn(s) = {} /\ adm'.result = <<0, 0>>)
       /\ AdminDeleteExec =>
             /\ adm'.op = "deleted"
             /\ adm'.result[1] = adm.total_count
             /\ adm'.result[2] = Cardinality(DOMAIN tasks \ DOMAIN tasks')
             /\ DOMAIN tasks \ DOMAIN tasks' = TasksIn(adm.status)
             /\ Cardinality(TasksIn(adm.status)) = adm.total_count
                   => adm'.result[1] = adm'.result[2]]_vars

C11_Witness ==
    /\ adm.op = "deleted"
    /\ adm.result = <<2, 1>>
    /\ Cardinality(DOMAIN tasks) = 1

\* C12: every committed insert into proxy_task_queue puts an event on
\* proxy_task_event that carries the task_id, task_type, server_ip and
\* payload of the new row; an enqueue that fails on its lookup or whose
\* insert does not commit puts no event there, and no event appears
\* without a committed insert.
C12_EventPerCommittedInsert ==
    [][/\ \A t \in DOMAIN tasks' \ DOMAIN tasks :
             \E e \in events' \ events :
                 /\ e.task_id = t
                 /\ e.task_type = tasks'[t].task_type
                 /\ e.server_ip = tasks'[t].server_ip
                 /\ e.payload = tasks'[t].payload
       /\ \A e \in events' \ events : e.task_id \in DOMAIN tasks' \ DOMAIN tasks
       /\ \A p \in ProxyIdArgs, q \in PortIdArgs, k \in TaskTypes :
             \/ ClientEnqueue(p, q, k) /\ cli'.op = "ValueError"
             \/ ClientEnqueueAborted(p, q, k)
             => events' = events /\ tasks' = tasks]_vars

C12_Witness ==
    /\ cli.op = "SQLAlchemyError"
    /\ nextTaskId = 3
    /\ Cardinality(events) = 1
    /\ \E e \in events : e.task_id = 1 /\ e.task_type = "remove_proxy"
    /\ DOMAIN tasks = {1}

\* C13: an installation run at any state of pg_proc and pg_trigger ends
\* without an error, creates exactly the definitions that are missing and
\* leaves its function and its trigger in place once each, as one
\* installation into empty catalogs does; run again at once it changes
\* nothing.
C13_InstallIdempotent ==
    [][\A d \in {<<"notify_proxy_task_insert", "trg_proxy_task_insert">>,
                  <<"update_proxy_task_updated_at", "trg_update_proxy_task_updated_at">>} :
          Install(d[1], d[2]) =>
              /\ inst'.outcome = "installed"
              /\ functions' = functions \cup {d[1]}
              /\ triggers' = triggers \cup {d[2]}
              /\ (install(d[1], d[2]))'.functions = functions'
              /\ (install(d[1], d[2]))'.triggers = triggers'
              /\ ~(install(d[1], d[2]))'.error]_vars

C13_Witness ==
    /\ inst.outcome = "installed"
    /\ inst.result_func /\ ~inst.result_trigger
    /\ functions = {"notify_proxy_task_insert", "update_proxy_task_updated_at"}
    /\ triggers = {"trg_proxy_task_insert", "trg_update_proxy_task_updated_at"}

(* ================ properties of the lifecycle, continued ============== *)
\* A step of handle_confirm_purchase for user u.
PurchaseStep(u) ==
    \/ \E term \in Terms : SelectProxy(u, term)
    \/ SelectPort(u) \/ CheckBalance(u) \/ DebitRead(u) \/ DebitWrite(u)
    \/ CreateRental(u) \/ FlipProxy(u) \/ FlipPort(u)
    \/ PurchaseEnqueue(u) \/ PurchaseReturn(u)

\* The run of the handler at hand has debited the balance.
Debited(u) == pc[u] \in {"create_rental", "flip_proxy", "flip_port", "enqueue", "wait"}

\* C14: a purchase that ends in a failure other than an unconfirmed task
\* has by then changed nothing: it has not debited the balance, created no
\* rental and set no proxy or port to Rented.
C14_FailureBeforeAnyChange ==
    [][\A u \in Users :
          (/\ PurchaseStep(u)
           /\ pc'[u] = "idle"
           /\ loc'[u].outcome \notin {"success", "unconfirmed"})
              => /\ ~Debited(u)
                 /\ loc[u].rental_id = 0
                 /\ UNCHANGED <<balance, rentals, proxyStatus, portStatus>>]_vars

\* C15: when the wait of a purchase returns False, for an error of the
\* task as for a timeout, the handler undoes nothing: the rental it created
\* is still there, its proxy and port are still Rented, the balance stays
\* debited and the task row is as it was.
C15_UnconfirmedKeepsPurchase ==
    [][\A u \in Users :
          (PurchaseReturn(u) /\ ~wait[u].result) =>
              /\ loc'[u].outcome = "unconfirmed"
              /\ \E r \in rentals' : r.id = loc[u].rental_id /\ r.user = u
              /\ proxyStatus'[loc[u].proxy_id] = StatusRented
              /\ portStatus'[loc[u].port_id] = StatusRented
              /\ UNCHANGED <<balance, rentals, proxyStatus, portStatus, tasks>>
              /\ loc[u].task_id \in DOMAIN tasks']_vars

C15_Witness ==
    /\ pc[Buyer] = "idle"
    /\ loc[Buyer].outcome = "unconfirmed"
    /\ balance[Buyer] = 0
    /\ Cardinality(rentals) = 2
    /\ \A r \in rentals : /\ proxyStatus[r.proxy_id] = StatusRented
                           /\ portStatus[r.port_id] = StatusRented
    /\ \E t \in DOMAIN tasks : tasks[t].task_type = "add_proxy" /\ tasks[t].status = "error"
    /\ \E t \in DOMAIN tasks : tasks[t].task_type = "add_proxy" /\ tasks[t].status = "pending"

\* Ids the serial of proxy_rentals hands out within the bounds.
RentalIds == 1..MaxLifeTasks
ExpiredId(id) == \E r \in rentals : r.id = id /\ r.expire_date <= now
AbsentId(id) == \A r \in rentals : r.id # id
ResolvableId(id) ==
    \E r \in rentals : r.id = id /\ TaskData(r.proxy_id, r.port_id) # {}

\* C16 as stated: under fair scheduling of the reclamation loop every
\* rental whose expiry has passed is eventually deleted and its proxy and
\* its port eventually become available, whatever the worker does.
C16_ExpiredEventuallyReclaimed ==
    /\ \A id \in RentalIds : ExpiredId(id) ~> AbsentId(id)
    /\ \A p \in Proxies :
          (\E r \in rentals : r.proxy_id = p /\ r.expire_date <= now)
              ~> (proxyStatus[p] = StatusAvailable)
    /\ \A q \in Ports :
          (\E r \in rentals : r.port_id = q /\ r.expire_date <= now)
              ~> (portStatus[q] = StatusAvailable)

\* C16 as amended: under fair scheduling of the reclamation loop every
\* rental whose expiry has passed is eventually deleted, and its proxy and
\* its port eventually become available or are held by an unexpired rental
\* again, for as long as the rows its task is built from can be looked up;
\* the worker need not serve any task.
C16_ExpiredEventuallyReclaimedWhileResolvable ==
    /\ \A id \in RentalIds : ExpiredId(id) ~> (AbsentId(id) \/ ~ResolvableId(id))
    /\ \A p \in Proxies :
          (\E r \in rentals : r.proxy_id = p /\ r.expire_date <= now)
              ~> \/ proxyStatus[p] = StatusAvailable
                 \/ \E x \in rentals : x.proxy_id = p /\ x.expire_date > now
                 \/ servers = {}
    /\ \A q \in Ports :
          (\E r \in rentals : r.port_id = q /\ r.expire_date <= now)
              ~> \/ portStatus[q] = StatusAvailable
                 \/ \E x \in rentals : x.port_id = q /\ x.expire_date > now
                 \/ servers = {}

C16_Witness ==
    /\ rec.pc = "sleep"
    /\ Len(rec.expired) = 1
    /\ \A r \in Snapshotted : Logged("cleaned", r) /\ Logged("timeout", r)
    /\ rentals = {}
    /\ \A p \in Proxies : proxyStatus[p] = StatusAvailable
    /\ \A q \in Ports : portStatus[q] = StatusAvailable
    /\ Cardinality(DOMAIN tasks) = 2
    /\ \A t \in DOMAIN tasks : tasks[t].status = "pending"

\* C17: when the loop's lookup of an expired rental finds no server/port
\* data, that step creates no task and changes neither the rentals nor any
\* proxy or port status; it logs the skip and goes on to the next rental or
\* to the sleep. The next snapshot selects every rental the cycle before it
\* skipped.
C17_SkippedUntouchedAndSelectedAgain ==
    [][/\ (rec.pc = "lookup" /\ rec' # rec
            /\ TaskData(rental.proxy_id, rental.port_id) = {})
          => /\ UNCHANGED <<rentals, proxyStatus, portStatus, balance>>
             /\ UNCHANGED <<tasks, nextTaskId, events>>
             /\ <<"skipped", rental.id>> \in rec'.log
             /\ rec'.pc \in {"lookup", "sleep"}
       /\ (rec.pc = "sleep" /\ rec' # rec)
          => \A r \in Snapshotted :
                Logged("skipped", r)
                   => /\ r \in rentals /\ r.expire_date <= now
                      /\ \E i \in DOMAIN rec'.expired : rec'.expired[i] = r]_vars

C17_Witness ==
    /\ rec.pc = "lookup"
    /\ Len(rec.expired) = 2
    /\ rec.i = 2
    /\ rec.log = {<<"skipped", rec.expired[1].id>>}
    /\ servers = {}
    /\ \A r \in Snapshotted : r \in rentals /\ ~Freed(r)
    /\ \A t \in DOMAIN tasks : tasks[t].task_type = "add_proxy"

\* C18: the cleanup of a rental is atomic: while the loop is at a rental
\* whose row is still in the store, neither the proxy nor the port of that
\* rental has been set to available yet.
C18_CleanupAtomic ==
    rec.pc \in {"free_proxy", "free_port", "delete",
                "force_proxy", "force_port", "force_delete"}
        => \A r \in rentals :
              r.id = rental.id
                 => /\ proxyStatus[r.proxy_id] # StatusAvailable
                    /\ portStatus[r.port_id] # StatusAvailable

(* ===================== lifecycle with storage failures ================ *)
\* The purchase and the reclamation loop over a database whose statements
\* can fail under the loop, while the worker is out of reach and serves no
\* task.
NextFail ==
    \/ \E term \in Terms : SelectProxy(Buyer, term)
    \/ SelectPort(Buyer)
    \/ CheckBalance(Buyer)
    \/ DebitRead(Buyer)
    \/ DebitWrite(Buyer)
    \/ CreateRental(Buyer)
    \/ FlipProxy(Buyer)
    \/ FlipPort(Buyer)
    \/ PurchaseEnqueue(Buyer)
    \/ PurchaseReturn(Buyer)
    \/ \E c \in {Buyer, "reclaimer"} : WaitPollSleep(c)
    \/ Snapshot
    \/ ReclaimLookup
    \/ ReclaimEnqueue
    \/ ReclaimWaited
    \/ ReclaimFreeProxy
    \/ ReclaimFreePort
    \/ ReclaimDelete
    \/ ReclaimRaise
    \/ ReclaimCommitLost
    \/ ReclaimUpdateFailed
    \/ ReclaimForcedRaise
    \/ SnapshotRaise
    \/ Tick

SpecFail == Init /\ [][NextFail]_vars

\* The same with the coroutine scheduled fairly, whether its statements
\* succeed or fail.
ReclaimRunFail ==
    \/ ReclaimRun
    \/ ReclaimRaise
    \/ ReclaimCommitLost
    \/ ReclaimUpdateFailed
    \/ ReclaimForcedRaise
    \/ SnapshotRaise

SpecFailLive == InitLive /\ [][NextFail]_vars /\ WF_vars(ReclaimRunFail)

\* The id of the rental the loop is at, and what is logged for it after
\* the step.
AtId == rec.expired[rec.i].id
LoggedAfter(kind) == <<kind, AtId>> \in rec'.log
LoggedNow(kind) == <<kind, AtId>> \in rec.log

\* The `for` leaves the rental it is at: it takes the next one or ends.
ReclaimMovesOn ==
    /\ rec.pc \notin {"sleep", "halted"}
    /\ rec'.i # rec.i \/ rec'.pc = "sleep"

\* C19: an exception raised at a rental, in the lookup, the enqueue, the
\* wait or the cleanup, takes the loop to the forced cleanup of that same
\* rental; the loop leaves a rental that raised only after the forced
\* cleanup has deleted it or has failed and been logged; and a failed forced
\* cleanup is followed by the next rental of the snapshot, or by the sleep
\* when there is none.
C19_ExceptionForcesCleanupThenGoesOn ==
    [][/\ (rec.pc \notin {"sleep", "halted"} /\ ~LoggedNow("raised") /\ LoggedAfter("raised"))
          => /\ rec'.pc = "force_proxy"
             /\ rec'.i = rec.i /\ rec'.expired = rec.expired
       /\ (ReclaimMovesOn /\ LoggedAfter("raised"))
          => LoggedAfter("forced") \/ LoggedAfter("secondary")
       /\ (rec.pc \notin {"sleep", "halted"} /\ ~LoggedNow("secondary") /\ LoggedAfter("secondary"))
          => /\ rec'.expired = rec.expired
             /\ IF rec.i < Len(rec.expired)
                THEN rec'.pc = "lookup" /\ rec'.i = rec.i + 1
                ELSE rec'.pc = "sleep"]_vars

C19_Witness ==
    /\ rec.pc = "sleep"
    /\ Len(rec.expired) = 2
    /\ <<"raised", rec.expired[1].id>> \in rec.log
    /\ <<"secondary", rec.expired[1].id>> \in rec.log
    /\ rec.expired[1] \in rentals
    /\ <<"raised", rec.expired[2].id>> \in rec.log
    /\ <<"forced", rec.expired[2].id>> \in rec.log
    /\ Absent(rec.expired[2])

\* C20: the reclamation loop never halts: whatever fails in a cycle, the
\* loop is at its sleep, about to start another cycle, again and again.
C20_LoopNeverHalts == []<>(rec.pc = "sleep")

(* ================ properties of the lifecycle, continued ============== *)
\* The outcomes the loop logs for a rental it has left.
Outcomes == {"skipped", "cleaned", "forced"}

\* C21: within a cycle the snapshot is fixed and walked in its order, one
\* rental at a time: a step of the loop stays at its rental or goes to the
\* lookup of the very next one, the cycle ends only after the last one, and
\* at the end every rental of the snapshot has exactly one outcome logged,
\* whatever the task of another rental came to.
C21_SnapshotWalkedInOrderOnce ==
    [][/\ (rec.pc # "sleep" /\ rec' # rec)
          => /\ rec'.expired = rec.expired
             /\ rec'.i \in {rec.i, rec.i + 1}
             /\ rec'.i = rec.i + 1 <=> (rec'.pc = "lookup" /\ rec.i < Len(rec.expired))
             /\ rec'.pc = "sleep" => rec.i = Len(rec.expired)
             /\ rec'.i = rec.i + 1 \/ rec'.pc = "sleep"
                   => \E k \in Outcomes : <<k, rec.expired[rec.i].id>> \in rec'.log
       /\ (rec.pc = "sleep" /\ rec' # rec)
          => /\ rec'.log = {}
             /\ IF rec'.expired = <<>>
                THEN rec'.pc = "sleep" /\ rec'.i = 0
                ELSE rec'.pc = "lookup" /\ rec'.i = 1
             /\ \A j, k \in DOMAIN rec'.expired :
                   j # k => rec'.expired[j].id # rec'.expired[k].id
       /\ CycleCompletes
          => \A j \in DOMAIN rec.expired :
                Cardinality({k \in Outcomes : <<k, rec.expired[j].id>> \in rec'.log}) = 1]_vars

C21_Witness ==
    /\ rec.pc = "sleep"
    /\ Len(rec.expired) = 2
    /\ <<"timeout", rec.expired[1].id>> \in rec.log
    /\ <<"cleaned", rec.expired[1].id>> \in rec.log
    /\ <<"timeout", rec.expired[2].id>> \notin rec.log
    /\ <<"cleaned", rec.expired[2].id>> \in rec.log
    /\ \E t \in DOMAIN tasks :
          tasks[t].task_type = "remove_proxy" /\ tasks[t].status = "error"

\* C22: a purchase is inside its wait only after it has set its proxy and
\* its port to rented, and while it waits, and when the wait has returned
\* with either result, both still are rented, so that no selection of an
\* available proxy or port can return them.
C22_WaitsOnlyOnReserved ==
    \A u \in Users :
        pc[u] = "wait"
            => /\ proxyStatus[loc[u].proxy_id] = StatusRented
               /\ portStatus[loc[u].port_id] = StatusRented
               /\ \A t \in Proxies :
                     loc[u].proxy_id \notin get_first_available_proxy_by_type_id(ProxyTypeId(t))
               /\ \A sv \in Servers :
                     loc[u].port_id \notin get_first_available_port_id_by_server_id(sv)

\* C23: a rental is created together with, and not before, the flips of
\* its proxy and port: every rental in the store that has not expired, and
\* so is not under reclamation, has its proxy and its port rented.
C23_RentalImpliesRented ==
    \A r \in rentals :
        r.expire_date > now
            => /\ proxyStatus[r.proxy_id] = StatusRented
               /\ portStatus[r.port_id] = StatusRented

\* An add_proxy task in the queue for the proxy and port of a purchase.
AddTaskFor(proxy_id, port_id) ==
    \E t \in DOMAIN tasks :
        /\ tasks[t].task_type = "add_proxy"
        /\ tasks[t].payload.internal_ip = InternalIp(proxy_id)
        /\ tasks[t].payload.port = PortNumber(port_id)

\* C24: an enqueue of the purchase that fails leaves no task row and ends
\* the handler with the failure reported; and no purchase ends with its
\* rental in the store and its proxy and port rented while the queue holds
\* no add_proxy task for them.
C24_NoReservationWithoutTask ==
    [][\A u \in Users :
          /\ (pc[u] = "enqueue" /\ pc'[u] = "idle")
                => /\ tasks' = tasks /\ events' = events
                   /\ loc'[u].outcome = "unexpected"
          /\ (pc[u] \in {"enqueue", "wait"} /\ pc'[u] = "idle")
                => \/ ~(/\ \E r \in rentals' : r.id = loc[u].rental_id
                        /\ proxyStatus'[loc[u].proxy_id] = StatusRented
                        /\ portStatus'[loc[u].port_id] = StatusRented)
                   \/ AddTaskFor(loc[u].proxy_id, loc[u].port_id)']_vars

(* ================= properties of the queue, continued ================= *)
\* C25: every update of a task row sets updated_at to the current time if
\* the status changes and the new status is done or error, and leaves
\* updated_at as it was otherwise: on the change to processing and on an
\* update that keeps the status.
C25_StampedIffChangedToTerminal ==
    [][\A t \in DOMAIN tasks \cap DOMAIN tasks' :
          tasks'[t] # tasks[t]
             => tasks'[t].updated_at =
                   IF tasks'[t].status # tasks[t].status /\ tasks'[t].status \in Terminal
                   THEN now
                   ELSE tasks[t].updated_at]_vars

C25_Witness ==
    /\ \E t \in DOMAIN tasks :
          /\ tasks[t].status \in Terminal
          /\ tasks[t].error_message = "noted"
          /\ tasks[t].updated_at # NoTime /\ tasks[t].updated_at < now
    /\ \E t \in DOMAIN tasks :
          tasks[t].status = "processing" /\ tasks[t].updated_at = NoTime

\* A step of the external worker.
WorkerStep ==
    \E t \in DOMAIN tasks :
        \/ WorkerTake(t)
        \/ \E st \in Terminal : WorkerFinish(t, st)
        \/ WorkerNote(t)

\* C26: a step that is neither the worker's nor the bulk delete by status
\* keeps every task row as it is and keeps it in the table; the rows it
\* adds are pending and carry no updated_at.
C26_CoreOnlyInsertsPending ==
    [][(~WorkerStep /\ ~AdminDeleteExec)
          => /\ \A t \in DOMAIN tasks : t \in DOMAIN tasks' /\ tasks'[t] = tasks[t]
             /\ \A t \in DOMAIN tasks' \ DOMAIN tasks :
                   /\ tasks'[t].status = "pending"
                   /\ tasks'[t].updated_at = NoTime]_vars

C26_Witness ==
    /\ loc[Buyer].outcome = "unconfirmed"
    /\ rec.pc = "sleep"
    /\ \E r \in Snapshotted : Logged("timeout", r) /\ Logged("cleaned", r)
    /\ Cardinality(DOMAIN tasks) = 2
    /\ \A t \in DOMAIN tasks : tasks[t].status = "pending"

(* ================ properties of the lifecycle, continued ============== *)
\* C27: the purchase writes a proxy or port status only from available to
\* rented, the reclamation loop only from rented to available, and no
\* other step changes a status.
C27_StatusWritesFromExpectedPrior ==
    [][/\ \A u \in Users :
             /\ FlipProxy(u)
                   => /\ proxyStatus[loc[u].proxy_id] = StatusAvailable
                      /\ proxyStatus'[loc[u].proxy_id] = StatusRented
             /\ FlipPort(u)
                   => /\ portStatus[loc[u].port_id] = StatusAvailable
                      /\ portStatus'[loc[u].port_id] = StatusRented
       /\ ReclaimFreeProxy
             => /\ proxyStatus[rental.proxy_id] = StatusRented
                /\ proxyStatus'[rental.proxy_id] = StatusAvailable
       /\ ReclaimFreePort
             => /\ portStatus[rental.port_id] = StatusRented
                /\ portStatus'[rental.port_id] = StatusAvailable
       /\ (proxyStatus' # proxyStatus \/ portStatus' # portStatus)
             => \/ \E u \in Users : FlipProxy(u) \/ FlipPort(u)
                \/ ReclaimFreeProxy \/ ReclaimFreePort]_vars

\* The task rows a step adds.
Added == DOMAIN tasks' \ DOMAIN tasks

\* C28: a step adds at most one task, and only as the enqueue of a purchase
\* (add_proxy) or of the loop for the rental at hand (remove_proxy); a
\* purchase comes to its enqueue only from the flip of its port and the
\* loop only from the lookup of the same rental, so that neither enqueues
\* twice for one attempt or one rental of a cycle; and the step that takes
\* the result of a wait adds no task and leaves a task in error as it is.
C28_NoInlineRetry ==
    [][/\ Cardinality(Added) <= 1
       /\ \A t \in Added :
             \/ /\ tasks'[t].task_type = "add_proxy"
                /\ \E u \in Users : pc[u] = "enqueue" /\ pc'[u] = "wait"
                                       /\ loc'[u].task_id = t
             \/ /\ tasks'[t].task_type = "remove_proxy"
                /\ rec.pc = "enqueue" /\ rec'.pc = "wait"
                /\ wait'["reclaimer"].task_id = t
       /\ \A u \in Users :
             /\ (pc'[u] = "enqueue" /\ pc[u] # "enqueue") => pc[u] = "flip_port"
             /\ pc[u] = "wait" => pc'[u] \in {"wait", "idle"}
       /\ (rec'.pc = "enqueue" /\ rec.pc # "enqueue")
             => (rec.pc = "lookup" /\ rec'.i = rec.i)
       /\ rec.pc = "wait" => (rec'.pc \in {"wait", "free_proxy"} /\ rec'.i = rec.i)
       /\ \A t \in DOMAIN tasks :
             tasks[t].status = "error"
                => (t \in DOMAIN tasks' /\ tasks'[t] = tasks[t])]_vars

C28_Witness ==
    /\ loc[Buyer].outcome = "unconfirmed"
    /\ rec.pc = "sleep"
    /\ Len(rec.expired) = 1
    /\ \E r \in Snapshotted : Logged("timeout", r) /\ Logged("cleaned", r)
    /\ rentals = {}
    /\ Cardinality(DOMAIN tasks) = 2
    /\ \A t \in DOMAIN tasks : tasks[t].status = "error"

\* The reads a wait with timeout=5 and the default interval can make, and
\* the seconds it can have waited when it gives up.
MaxReads == (CallerTimeout + DefaultInterval - 1) \div DefaultInterval
MaxWaited == MaxReads * DefaultInterval

Assigned == {e.task_id : e \in events}

\* C30: the id an Enqueue returns is the id of the one row it adds, is
\* greater than every id assigned before, those of deleted rows included,
\* and the serial never goes back; so the status read for the id of a
\* deleted task stays None.
C30_IdsMonotonic ==
    [][/\ nextTaskId' >= nextTaskId
       /\ \A t \in Added :
             /\ \A a \in Assigned \cup DOMAIN tasks : a < t
             /\ t < nextTaskId'
             /\ Added = {t} /\ cli'.op = "enqueued" /\ cli'.task_id = t
       /\ \A a \in Assigned :
             a \notin DOMAIN tasks => get_task_status(a)' = ""]_vars

C30_Witness ==
    /\ adm.op = "deleted" /\ adm.result = <<1, 1>>
    /\ cli.op = "enqueued" /\ cli.task_id = 2
    /\ DOMAIN tasks = {2}
    /\ Assigned = {1, 2}
    /\ get_task_status(1) = ""

(* ================ properties of the lifecycle, continued ============== *)
\* C31: a write of the cleanup that is applied to a rental for the second
\* time changes nothing: setting an available proxy or port to available
\* leaves the statuses as they are, deleting a rental that is gone leaves
\* the rentals as they are, and the loop goes on to its next position as
\* after a first application.
C31_CleanupIdempotent ==
    [][/\ (ReclaimFreeProxy /\ proxyStatus[rental.proxy_id] = StatusAvailable)
          => /\ proxyStatus' = proxyStatus
             /\ rec'.pc \in {"free_port", "force_port"}
       /\ (ReclaimFreePort /\ portStatus[rental.port_id] = StatusAvailable)
          => /\ portStatus' = portStatus
             /\ rec'.pc \in {"delete", "force_delete"}
       /\ (ReclaimDelete /\ Absent(rental))
          => /\ rentals' = rentals
             /\ rec'.pc \in {"lookup", "sleep"}
       /\ ReclaimDelete => \A x \in rentals' : x.id # rec.expired[rec.i].id]_vars

C31_Witness ==
    /\ rec.pc = "sleep"
    /\ Len(rec.expired) = 1
    /\ Logged("raised", rec.expired[1]) /\ Logged("forced", rec.expired[1])
    /\ Logged("timeout", rec.expired[1])
    /\ Absent(rec.expired[1]) /\ Freed(rec.expired[1])
    /\ Cardinality(DOMAIN tasks) = 2

(* ================= properties of the queue, continued ================= *)
\* C32: a DeleteByStatus that raises, while counting or after the count,
\* ends with the error handed to its caller and with the table, the serial
\* and the notifications as they were before the call.
C32_FailedDeleteLeavesQueue ==
    [][(adm'.op = "error" /\ adm' # adm)
          => /\ tasks' = tasks
             /\ UNCHANGED <<nextTaskId, events>>
             /\ adm'.result = <<0, 0>>]_vars

C32_Witness ==
    /\ adm.op = "error"
    /\ adm.total_count = 2
    /\ Cardinality(TasksIn(adm.status)) = 2

(* ============ properties of the completion wait, continued ============ *)
\* C33: while the awaited row is gone, a status read sends the wait to its
\* sleep like any non-terminal status, and the wait returns only from the
\* loop test, with False and with the timeout used up; it never returns
\* True.
C33_MissingRowPollsUntilTimeout ==
    [][LET cur == wait["client"]
           nxt == wait'["client"]
       IN (/\ cur.state \in {"poll", "sleep"}
           /\ cur.task_id \notin DOMAIN tasks
           /\ nxt # cur)
          => /\ cur.state = "poll" => nxt.state = "sleep" /\ nxt.reads = cur.reads + 1
             /\ nxt.state = "returned"
                   => nxt.result = FALSE /\ nxt.waited >= nxt.timeout /\ cur.state = "sleep"]_vars

C33_Witness ==
    /\ wait["client"].state = "returned"
    /\ wait["client"].result = FALSE
    /\ wait["client"].task_id \notin DOMAIN tasks
    /\ wait["client"].reads = 3
    /\ adm.op = "deleted"
    /\ adm.status = "processing"
    /\ adm.result = <<1, 1>>

(* ================ properties of reclamation, continued ================ *)
Unexpired == {x \in rentals : x.expire_date > now}

\* C34: when the reclamation loop, in its cleanup or its forced cleanup,
\* turns a rented proxy or a rented port to Available, no rental whose
\* expiry is still ahead refers to that proxy or port.
C34_FreesOnlyUnheld ==
    [][/\ (ReclaimFreeProxy /\ proxyStatus[rental.proxy_id] = StatusRented)
          => \A x \in Unexpired : x.proxy_id # rental.proxy_id
       /\ (ReclaimFreePort /\ portStatus[rental.port_id] = StatusRented)
          => \A x \in Unexpired : x.port_id # rental.port_id]_vars

(* ================= properties of the purchase, continued ============== *)
\* C35: the balance of a user is never negative, whatever the interleaving
\* of the confirmations the user has in flight.
C35_BalanceNeverNegative == \A u \in Users : balance[u] >= 0

\* C36: the snapshot of a cycle holds the rentals whose expiry is not after
\* the clock at that moment and changes only when the next snapshot is
\* taken; the loop frees the resources of, and deletes, only the rental of
\* the snapshot it has at hand, whose expiry is then not ahead. A rental
\* that is not in the snapshot, because it expired during the cycle or has
\* not expired, stays in the table until a later snapshot.
C36_OnlySnapshottedDeleted ==
    [][/\ Snapshot => /\ Snapshotted' = {x \in rentals : x.expire_date <= now}
                       /\ \A x \in Snapshotted' : x.expire_date <= now
       /\ rec'.expired # rec.expired => Snapshot
       /\ \A x \in rentals \ rentals' :
             x \in Snapshotted /\ x.id = rec.expired[rec.i].id /\ x.expire_date <= now
       /\ (ReclaimFreeProxy \/ ReclaimFreePort \/ ReclaimDelete)
             => rec.expired[rec.i].expire_date <= now]_vars

C36_Witness ==
    /\ rec.pc = "sleep"
    /\ Len(rec.expired) = 1
    /\ <<"cleaned", rec.expired[1].id>> \in rec.log
    /\ rec.expired[1] \notin rentals
    /\ \E x \in rentals : /\ x.expire_date = now
                           /\ x.expire_date > rec.expired[1].expire_date
                           /\ x \notin Snapshotted

(* ======================== properties of startup ======================= *)
\* C37: the reclamation loop exists, and a handler runs, only after the
\* insert function and its trigger have been installed, so that every step
\* of the process that adds a task row is taken with both in place and
\* sends the event of the row.
C37_TriggerBeforeAnyInsert ==
    [][/\ (rec'.pc # "unstarted" \/ pc'[Buyer] # "idle")
          => /\ "notify_proxy_task_insert" \in functions'
             /\ "trg_proxy_task_insert" \in triggers'
       /\ Added # {}
          => /\ "notify_proxy_task_insert" \in functions
             /\ "trg_proxy_task_insert" \in triggers
             /\ \A t \in Added : \E e \in events' : e.task_id = t]_vars

C37_Witness ==
    /\ inst.function = "update_proxy_task_updated_at"
    /\ ~inst.result_func /\ ~inst.result_trigger
    /\ \E t \in DOMAIN tasks : tasks[t].task_type = "remove_proxy"
    /\ \E t \in DOMAIN tasks : tasks[t].task_type = "add_proxy"
    /\ \A t \in DOMAIN tasks : \E e \in events : e.task_id = t

(* ============ properties of the completion wait, any arguments ======== *)
\* C38: for every timeout and interval from zero on and whatever the worker
\* does, a wait that is in its loop returns; and a wait with timeout 0 has
\* returned False without a status read.
C38_WaitAlwaysReturns ==
    /\ (wait["client"].state = "poll") ~> (wait["client"].state = "returned")
    /\ [](wait["client"].state # "idle" /\ wait["client"].timeout = 0
            => /\ wait["client"].state = "returned"
               /\ ~wait["client"].result
               /\ wait["client"].reads = 0)

\* A wait with timeout 0 has returned False without a status read.
ZeroTimeoutReturnsUnread ==
    (wait["client"].state # "idle" /\ wait["client"].timeout = 0)
        => /\ wait["client"].state = "returned"
           /\ ~wait["client"].result
           /\ wait["client"].reads = 0

\* A wait with an interval of at least one that is in its loop returns.
PositiveIntervalReturns ==
    (wait["client"].state = "poll" /\ wait["client"].interval > 0)
        ~> (wait["client"].state = "returned")

====
